---- MODULE Spec2Model ----
(***************************************************************************)
(* Ingestion and normalisation pipeline of the sports statistics site:     *)
(* the NBA season merger (backend/services/nbaStatsService.js), the EPL    *)
(* paginated fetcher and merger (backend/services/eplService.js) and the   *)
(* update orchestrator (backend/services/updateService.js).                *)
(*                                                                         *)
(* Team labels are sequences of characters, so that String.includes('TM')  *)
(* is modelled as the substring test it is.  A missing (null/undefined)    *)
(* value is the empty sequence.                                            *)
(***************************************************************************)
EXTENDS Integers, Sequences, FiniteSets, TLC

VARIABLES
    group,        \* processPlayerGroup: the playerRecords argument
    resolved,     \* processPlayerGroup: what it handed to updatePlayerStats
    nbaStats,     \* NbaPlayerStats collection: playerId -> detail document
    players,      \* Player collection: <<league, id>> -> summary row
    now,          \* the clock read by new Date()
    lastMerge,    \* history: the arguments of the last updatePlayerStats call
    before,       \* history: nbaStats before the last updatePlayerStats call
    provider,     \* fetchAllPlayers: the provider's answer to each page request
    fetch,        \* fetchAllPlayers: page, playersData and what was requested
    eplStats,     \* EPLPlayerStats collection: playerId -> detail document
    teams,        \* Team collection: <<league, id>> -> team row
    systemInfo,   \* SystemInfo collection: key -> value
    inflight,     \* SystemInfo writes issued without await, not yet applied
    pc,           \* updateSportsData: the stage the call is in
    cycle,        \* updateSportsData: options, start times, leagues run
    results,      \* updateSportsData: the results object
    seen,         \* history: what each league's provider answered in the call
    returned,     \* updateSportsData: what the call returned
    calls,        \* number of calls of the entry points made so far
    lastRun,      \* history: the last league-only call and the collections before it
    derive,       \* per-game derivation: the totals record and the figures derived
    trigger,      \* the update pages and the updateSportsData calls in progress
    shared,       \* nbaStatsConfig and the calls that override it
    weave         \* two updatePlayerStats calls whose steps interleave

varsResolve == <<group, resolved>>
varsStore == <<nbaStats, players>>
varsMerge == <<lastMerge, before>>
varsFetch == <<provider, fetch>>
varsCycle == <<pc, cycle, results, seen, returned>>
varsLeagues == <<eplStats, teams, systemInfo, inflight, pc, cycle, results,
                 seen, returned, calls, lastRun>>
varsAux == <<derive, trigger, shared, weave>>
vars == <<group, resolved, nbaStats, players, now, lastMerge, before,
          provider, fetch, eplStats, teams, systemInfo, inflight, pc, cycle,
          results, seen, returned, calls, lastRun, derive, trigger,
          shared, weave>>

(***************************************************************************)
(* Bounds of the model.                                                    *)
(***************************************************************************)
MaxGroup == 3       \* records of one player in one fetch result
MaxRecordId == 3    \* provider record ids are 1..MaxRecordId
MaxMerges == 3      \* updatePlayerStats calls in a run of the merger alone
MaxPages == 3       \* pages the players endpoint reports
MaxRequests == 4    \* page requests followed in one fetchAllPlayers call
MaxCalls == 2       \* league-only calls in a run of the league entry points
MaxCycles == 1      \* updateSportsData calls in a run of the orchestrator

(***************************************************************************)
(* Values.                                                                 *)
(***************************************************************************)
Null == <<>>                       \* JS null / undefined
ATL == <<"A", "T", "L">>
BOS == <<"B", "O", "S">>
TwoTM == <<"2", "T", "M">>         \* the provider's multi-team roll-up label
TeamLabels == {ATL, BOS, TwoTM, Null}
GamesValues == {1, 2}

\* String.prototype.includes('TM')
includesTM(team) ==
    \E i \in 1..(Len(team) - 1) : team[i] = "T" /\ team[i + 1] = "M"

\* One record of a PlayerDataTotals / PlayerDataAdvanced response.
NbaRecord(id, playerId, team, season, position, games, value) ==
    [id |-> id, playerId |-> playerId, playerName |-> <<"name", playerId>>,
     team |-> team, season |-> season, position |-> position, age |-> 20 + games,
     games |-> games, points |-> value, per |-> value + 1]

(***************************************************************************)
(* processPlayerGroup                                                      *)
(***************************************************************************)
\* Mutant of aggregatedRecord: the roll-up row is never recognised.
aggregatedRecord_never(playerRecords) == Null

\* playerRecords.find(record => record.team && record.team.includes('TM'))
aggregatedRecord(playerRecords) ==
    LET hits == {i \in 1..Len(playerRecords) :
                    /\ playerRecords[i].team # Null
                    /\ includesTM(playerRecords[i].team)}
    IN  IF hits = {} THEN Null
        ELSE playerRecords[CHOOSE i \in hits : \A j \in hits : i <= j]

\* playerRecords.reduce((prev, current) => (prev.games > current.games) ? prev : current)
RECURSIVE reduceGames(_, _, _)
reduceGames(playerRecords, i, prev) ==
    IF i > Len(playerRecords) THEN prev
    ELSE reduceGames(playerRecords, i + 1,
                     IF prev.games > playerRecords[i].games THEN prev
                     ELSE playerRecords[i])

mostGamesRecord(playerRecords) == reduceGames(playerRecords, 2, playerRecords[1])

\* playerRecords.filter(record => !record.team.includes('TM')); a null team
\* makes the callback throw a TypeError.
filterThrows(playerRecords) ==
    \E i \in 1..Len(playerRecords) : playerRecords[i].team = Null

teamRecords(playerRecords) ==
    SelectSeq(playerRecords, LAMBDA record : ~includesTM(record.team))

\* teamRecords.sort((a, b) => b.id - a.id): a stable sort, descending by id.
RECURSIVE insertById(_, _)
insertById(sorted, record) ==
    IF sorted = <<>> THEN <<record>>
    ELSE IF Head(sorted).id >= record.id
         THEN <<Head(sorted)>> \o insertById(Tail(sorted), record)
         ELSE <<record>> \o sorted

RECURSIVE sortByIdDesc(_)
sortByIdDesc(records) ==
    IF records = <<>> THEN <<>>
    ELSE insertById(sortByIdDesc(SubSeq(records, 1, Len(records) - 1)),
                    records[Len(records)])

\* Mutant of finalTeamOf: the team of the statistics row with the most games.
finalTeamOf_mostGames(playerRecords) == mostGamesRecord(playerRecords).team

\* The team of the most recent per-team record, or null when there is none.
finalTeamOf(playerRecords) ==
    LET tr == teamRecords(playerRecords)
    IN  IF Len(tr) > 0 THEN sortByIdDesc(tr)[1].team ELSE Null

\* The result of processPlayerGroup: whether updatePlayerStats was called and
\* with which arguments; `threw` is an exception caught by its catch block.
Skipped(threw) ==
    [called |-> FALSE, threw |-> threw, playerId |-> Null, playerName |-> Null,
     team |-> Null, statsRecord |-> Null]

processPlayerGroup(playerRecords) ==
    IF Len(playerRecords) = 0 THEN Skipped(FALSE)
    ELSE LET first == playerRecords[1]
             agg == aggregatedRecord(playerRecords)
             statsRecord ==
                 IF Len(playerRecords) > 1
                 THEN IF agg # Null THEN agg ELSE mostGamesRecord(playerRecords)
                 ELSE first
             finalTeam ==
                 IF Len(playerRecords) > 1 THEN finalTeamOf(playerRecords)
                 ELSE first.team
         IN  IF Len(playerRecords) > 1 /\ filterThrows(playerRecords)
             THEN Skipped(TRUE)
             ELSE [called |-> TRUE, threw |-> FALSE, playerId |-> first.playerId,
                   playerName |-> first.playerName, team |-> finalTeam,
                   statsRecord |-> statsRecord]

(***************************************************************************)
(* The NbaPlayerStats collection.  A detail document is                    *)
(*   [playerId, name, regularSeasons, playoffs, lastUpdated]               *)
(* and a season entry (SeasonStatsSchema) is                               *)
(*   [season, team, position, age, totals, advanced, lastUpdated].         *)
(* regularSeasons and playoffs are declared [SeasonStatsSchema]: they are  *)
(* Mongoose document arrays, whose push() stores a subdocument cast from   *)
(* its argument and not the argument itself.                               *)
(***************************************************************************)
EmptyBlock == <<>>                 \* the {} a new season entry starts with

\* The subdocument a document array makes of a plain object: a copy that
\* holds the schema's fields as they are at the time of the call.
castSeasonStats(value) ==
    [season |-> value.season, team |-> value.team, position |-> value.position,
     age |-> value.age, totals |-> value.totals, advanced |-> value.advanced,
     lastUpdated |-> value.lastUpdated]

\* playerStats[seasonsArray].push(seasonStats)
DocumentArray_push(seasons, value) == Append(seasons, castSeasonStats(value))

NbaPlayerStats_findOne(store, playerId) ==
    IF playerId \in DOMAIN store THEN store[playerId] ELSE Null

NbaPlayerStats_new(playerId, playerName, t) ==
    [playerId |-> playerId, name |-> playerName, regularSeasons |-> <<>>,
     playoffs |-> <<>>, lastUpdated |-> t]

NbaPlayerStats_save(store, doc) ==
    [id \in DOMAIN store \cup {doc.playerId} |->
        IF id = doc.playerId THEN doc ELSE store[id]]

\* Model.create(fields) and the insert of an upsert: the store gives the new
\* row its _id, an ObjectId made from the time of the insert.
Player_insert(fields) == [_id |-> fields.lastUpdated] @@ fields

\* Mutant of Player_upsert: the row is replaced by a new one.
Player_upsert_replace(rows, key, fields) ==
    [k \in DOMAIN rows \cup {key} |->
        IF k # key THEN rows[k] ELSE Player_insert(fields)]

\* Player.findOneAndUpdate(query, fields, {upsert: true}): the fields are set
\* on the row the key names, which is created when it does not exist.
Player_upsert(rows, key, fields) ==
    [k \in DOMAIN rows \cup {key} |->
        IF k # key THEN rows[k]
        ELSE IF key \in DOMAIN rows
             THEN [f \in DOMAIN rows[key] \cup DOMAIN fields |->
                     IF f \in DOMAIN fields THEN fields[f] ELSE rows[key][f]]
             ELSE Player_insert(fields)]

(***************************************************************************)
(* updatePlayerStats and updatePlayerReference                             *)
(***************************************************************************)
\* Of the 25 totals fields and 22 advanced fields, all copied the same way,
\* the model keeps games and one statistic of each block.
totalsBlock(statsRecord) ==
    [games |-> statsRecord.games, points |-> statsRecord.points]

advancedBlock(statsRecord) ==
    [games |-> statsRecord.games, per |-> statsRecord.per]

\* Mutant of findSeason: the season is never found.
findSeason_never(seasons, season) == 0

\* seasons.find(s => s.season === season): the index of the first entry of
\* that season, 0 when there is none.
findSeason(seasons, season) ==
    LET hits == {i \in 1..Len(seasons) : seasons[i].season = season}
    IN  IF hits = {} THEN 0 ELSE CHOOSE i \in hits : \A j \in hits : i <= j

\* convertTeamFormat(team, 'id'); a null team makes toLowerCase() throw.
convertTeamFormatThrows(teamName) == teamName = Null

convertTeamFormat(teamName) ==
    IF teamName = ATL THEN <<"1">>
    ELSE IF teamName = BOS THEN <<"2">>
    ELSE teamName

updatePlayerReference(rows, playerId, playerName, team, statsRecord, t) ==
    IF convertTeamFormatThrows(team) THEN rows
    ELSE Player_upsert(rows, <<"nba", playerId>>,
            [playerId |-> <<"nba", playerId>>,
             teamId |-> <<"nba", convertTeamFormat(team)>>,
             league |-> "NBA",
             name |-> playerName,
             position |-> statsRecord.position,
             age |-> statsRecord.age,
             nbaStatsRef |-> playerId,
             stats |-> [gamesPlayed |-> statsRecord.games,
                        sportStats |-> [points |-> statsRecord.points]],
             lastUpdated |-> t])

\* seasonStats.totals = {...} or seasonStats.advanced = {...}
assignBlock(seasonStats, statsRecord, dataType) ==
    IF dataType = "totals"
    THEN [seasonStats EXCEPT !.totals = totalsBlock(statsRecord)]
    ELSE IF dataType = "advanced"
    THEN [seasonStats EXCEPT !.advanced = advancedBlock(statsRecord)]
    ELSE seasonStats

\* The plain object built for a season that is not stored yet.
newSeasonStats(team, statsRecord, t) ==
    [season |-> statsRecord.season, team |-> team,
     position |-> statsRecord.position, age |-> statsRecord.age,
     totals |-> EmptyBlock, advanced |-> EmptyBlock, lastUpdated |-> t]

\* Mutant of updatedSeasonStats: the stored entry is rebuilt from the new
\* record, which drops the block of the other category.
updatedSeasonStats_rebuild(old, team, statsRecord, dataType, t) ==
    assignBlock(newSeasonStats(team, statsRecord, t), statsRecord, dataType)

\* The stored subdocument of the season after the metadata and the block of
\* dataType are assigned to it.
updatedSeasonStats(old, team, statsRecord, dataType, t) ==
    assignBlock([old EXCEPT !.team = team, !.position = statsRecord.position,
                            !.age = statsRecord.age, !.lastUpdated = t],
                statsRecord, dataType)

\* The regularSeasons or playoffs array that is saved.  For a new season the
\* plain object is pushed first and the block is assigned to the plain
\* object afterwards: the array holds the copy push() made of it, with the
\* blocks still empty.  For a stored season the subdocument found in the
\* array is assigned to.
mergedSeasons(seasons, team, statsRecord, dataType, t) ==
    LET i == findSeason(seasons, statsRecord.season)
    IN  IF i = 0
        THEN LET seasonStats == newSeasonStats(team, statsRecord, t)
                 pushed == DocumentArray_push(seasons, seasonStats)
                 assigned == assignBlock(seasonStats, statsRecord, dataType)
             IN  pushed
        ELSE [seasons EXCEPT
                ![i] = updatedSeasonStats(seasons[i], team, statsRecord,
                                          dataType, t)]

\* The detail document updatePlayerStats saves.
mergedDocument(store, playerId, playerName, team, statsRecord, isPlayoffs, dataType, t) ==
    LET found == NbaPlayerStats_findOne(store, playerId)
        playerStats ==
            IF found = Null THEN NbaPlayerStats_new(playerId, playerName, t)
            ELSE found
    IN  IF isPlayoffs
        THEN [playerStats EXCEPT
                !.playoffs = mergedSeasons(@, team, statsRecord, dataType, t),
                !.lastUpdated = t]
        ELSE [playerStats EXCEPT
                !.regularSeasons = mergedSeasons(@, team, statsRecord, dataType, t),
                !.lastUpdated = t]

\* playerStats.save() validates the document: NbaPlayerStatsSchema requires
\* name, and save() throws a ValidationError when it is missing.
saveThrows(doc) == doc.name = Null

\* Mutant of updatePlayerStats: the summary row is linked whether or not
\* the detail document was saved.
updatePlayerStats_linkAnyway(store, rows, playerId, playerName, team, statsRecord, isPlayoffs, dataType, t) ==
    LET doc == mergedDocument(store, playerId, playerName, team, statsRecord,
                              isPlayoffs, dataType, t)
    IN  [nbaStats |-> IF saveThrows(doc) THEN store
                      ELSE NbaPlayerStats_save(store, doc),
         players |->
            IF dataType = "totals" /\ ~isPlayoffs
            THEN updatePlayerReference(rows, playerId, playerName, team,
                                       statsRecord, t)
            ELSE rows]

\* updatePlayerStats: the two collections after the call.  When save()
\* throws, the catch block rethrows before the summary row is linked, and
\* the catch block of processPlayerGroup ends the work on this player.
updatePlayerStats(store, rows, playerId, playerName, team, statsRecord, isPlayoffs, dataType, t) ==
    LET doc == mergedDocument(store, playerId, playerName, team, statsRecord,
                              isPlayoffs, dataType, t)
    IN  IF saveThrows(doc)
        THEN [nbaStats |-> store, players |-> rows]
        ELSE [nbaStats |-> NbaPlayerStats_save(store, doc),
              players |->
                 IF dataType = "totals" /\ ~isPlayoffs
                 THEN updatePlayerReference(rows, playerId, playerName, team,
                                            statsRecord, t)
                 ELSE rows]

(***************************************************************************)
(* fetchAllPlayers: the paginated fetch of the EPL players endpoint.       *)
(* A provider answers the request for a page with a transport error        *)
(* (callApiFootball throws), with a body that lacks the response array, or *)
(* with a page of players and the paging block {current, total}.           *)
(***************************************************************************)
ErrorResponse == [kind |-> "error"]
InvalidResponse == [kind |-> "invalid"]
OkResponse(records, current, total) ==
    [kind |-> "ok", response |-> records, current |-> current, total |-> total]

\* One element of response.response: the player and the statistics entry the
\* merge uses.
\* A record of the players endpoint: statistics[0].games carries the count
\* of appearances under the provider's spelling `appearences`; it has no
\* field `appearances`.  The player started every game but one.
EplPlayerData(id, teamId, appearences, goals) ==
    [id |-> id, name |-> <<"name", id>>, teamId |-> teamId,
     position |-> "Attacker", appearences |-> appearences,
     appearances |-> Null,
     lineups |-> IF appearences = Null THEN Null
                 ELSE <<appearences[1] - 1>>,
     goals |-> goals, numeric |-> TRUE]

\* fetchAllPlayers(league, season, page = 1, playersData = [])
FetchStart ==
    [page |-> 1, playersData |-> <<>>, requested |-> <<>>, delays |-> <<>>,
     outcome |-> "requesting"]

\* Mutant of onFetchError: the pages collected so far are thrown away.
onFetchError_discard(st) == [st EXCEPT !.outcome = "raised"]

\* Mutant of onFetchError: the error is swallowed whatever was collected.
onFetchError_swallow(st) == [st EXCEPT !.outcome = "returned"]

\* The catch block: what was collected is returned when there is any,
\* otherwise the error is thrown to the caller.
onFetchError(st) ==
    IF Len(st.playersData) > 0 THEN [st EXCEPT !.outcome = "returned"]
    ELSE [st EXCEPT !.outcome = "raised"]

\* nextPage % 2 === 0 ? 1000 : 1500
delayMs(nextPage) == IF nextPage % 2 = 0 THEN 1000 ELSE 1500

\* One invocation of fetchAllPlayers: the request for st.page and what the
\* body does with the answer.
fetchStep(prov, st) ==
    LET answer == prov[st.page]
        asked == [st EXCEPT !.requested = Append(@, st.page)]
    IN  IF answer.kind = "error" THEN onFetchError(asked)
        ELSE IF answer.kind = "invalid" THEN [asked EXCEPT !.outcome = "returned"]
        ELSE LET collected ==
                     [asked EXCEPT !.playersData = @ \o answer.response]
             IN  IF answer.current < answer.total
                 THEN [collected EXCEPT
                          !.page = answer.current + 1,
                          !.delays = Append(@, delayMs(answer.current + 1))]
                 ELSE [collected EXCEPT !.outcome = "returned"]

\* The recursion of fetchAllPlayers, followed for at most `fuel` requests.
RECURSIVE fetchRun(_, _, _)
fetchRun(prov, st, fuel) ==
    IF st.outcome # "requesting" \/ fuel = 0 THEN st
    ELSE fetchRun(prov, fetchStep(prov, st), fuel - 1)

fetchAllPlayers(prov) == fetchRun(prov, FetchStart, MaxRequests)

(***************************************************************************)
(* The NBA league run: updateNbaStats, fetchAndProcessTotals,              *)
(* fetchAndProcessAdvanced and processBulkPlayerData.  The provider        *)
(* answers a request with a transport error (axios throws), with a body    *)
(* that is not an array, or with an array of records.                      *)
(***************************************************************************)
NbaError == [kind |-> "error"]
NbaInvalid == [kind |-> "invalid"]
NbaOk(records) == [kind |-> "ok", data |-> records]

\* The playerIds of the records in order of first appearance, records
\* with a falsy playerId ("") left out: Object.keys(playerGroups).
RECURSIVE groupKeys(_, _)
groupKeys(playerData, keys) ==
    IF playerData = <<>> THEN keys
    ELSE LET id == Head(playerData).playerId
             known == \E i \in 1..Len(keys) : keys[i] = id
         IN  groupKeys(Tail(playerData),
                       IF id = "" \/ known THEN keys ELSE Append(keys, id))

\* playerGroups[playerId]
playerGroup(playerData, playerId) ==
    SelectSeq(playerData, LAMBDA record : record.playerId = playerId)

\* processPlayerGroup with the call of updatePlayerStats it makes.
processAndMerge(col, playerRecords, isPlayoffs, dataType, t) ==
    LET r == processPlayerGroup(playerRecords)
    IN  IF r.called
        THEN updatePlayerStats(col.nbaStats, col.players, r.playerId,
                               r.playerName, r.team, r.statsRecord,
                               isPlayoffs, dataType, t)
        ELSE col

\* Mutant of processGroups: the loop ends at the first group whose
\* processing leaves the collections as they were.
RECURSIVE processGroups_abort(_, _, _, _, _, _)
processGroups_abort(col, playerData, keys, isPlayoffs, dataType, t) ==
    IF keys = <<>> THEN col
    ELSE LET after == processAndMerge(col, playerGroup(playerData, Head(keys)),
                                      isPlayoffs, dataType, t)
         IN  IF after = col THEN col
             ELSE processGroups_abort(after, playerData, Tail(keys),
                                      isPlayoffs, dataType, t)

\* The loop of processBulkPlayerData over the groups.
RECURSIVE processGroups(_, _, _, _, _, _)
processGroups(col, playerData, keys, isPlayoffs, dataType, t) ==
    IF keys = <<>> THEN col
    ELSE processGroups(
            processAndMerge(col, playerGroup(playerData, Head(keys)),
                            isPlayoffs, dataType, t),
            playerData, Tail(keys), isPlayoffs, dataType, t)

processBulkPlayerData(col, playerData, isPlayoffs, dataType, t) ==
    processGroups(col, playerData, groupKeys(playerData, <<>>), isPlayoffs,
                  dataType, t)

\* The grouping loop of processBulkPlayerData reads record.playerId of
\* every element: an element that is null raises there, before any group
\* is processed, and the outer catch of processBulkPlayerData rethrows.
groupingThrows(playerData) ==
    \E i \in 1..Len(playerData) : playerData[i] = Null

\* Mutant of fetchAndProcess: the flag is true only when every group of
\* the response has its detail document after the processing.
fetchAndProcess_allMerged(col, answer, isPlayoffs, dataType, t) ==
    IF answer.kind = "ok" /\ ~groupingThrows(answer.data)
    THEN LET after == processBulkPlayerData(col, answer.data, isPlayoffs,
                                            dataType, t)
             keys == groupKeys(answer.data, <<>>)
         IN  [ok |-> \A k \in 1..Len(keys) :
                        keys[k] \in DOMAIN after.nbaStats,
              col |-> after]
    ELSE [ok |-> FALSE, col |-> col]

\* fetchAndProcessTotals / fetchAndProcessAdvanced: the success flag and the
\* collections after the call.
fetchAndProcess(col, answer, isPlayoffs, dataType, t) ==
    IF answer.kind = "ok" /\ ~groupingThrows(answer.data)
    THEN [ok |-> TRUE,
          col |-> processBulkPlayerData(col, answer.data, isPlayoffs,
                                        dataType, t)]
    ELSE [ok |-> FALSE, col |-> col]

\* duration.toFixed(2) of a whole number of seconds
toFixed2(duration) == ToString(duration) \o ".00"

\* operation.replace(/\s+/g, ''); an operation name is the sequence of its
\* words and the blanks between them.
RECURSIVE removeWhitespace(_)
removeWhitespace(operation) ==
    IF operation = <<>> THEN ""
    ELSE IF Head(operation) = " " THEN removeWhitespace(Tail(operation))
    ELSE Head(operation) \o removeWhitespace(Tail(operation))

NbaRegularSeason == <<"NBA", " ", "Regular", " ", "Season">>
NbaPlayoffs == <<"NBA", " ", "Playoffs">>

\* The SystemInfo write logUpdateStatus issues without awaiting it.
nbaStatusWrite(operation, success, startTime, endTime) ==
    [key |-> "lastUpdate_" \o removeWhitespace(operation),
     value |-> [success |-> success, timestamp |-> endTime,
                duration |-> toFixed2(endTime - startTime)]]

\* updateNbaStats(type, season): the clock advances by one with each request
\* to the provider.  Every exception is caught and turned into false.
updateNbaStats(col, type, answers, startTime) ==
    IF type \in {"regular", "playoff"}
    THEN LET isPlayoffs == type = "playoff"
             totals == fetchAndProcess(col, answers.totals, isPlayoffs,
                                       "totals", startTime + 1)
             advanced == fetchAndProcess(totals.col, answers.advanced,
                                         isPlayoffs, "advanced", startTime + 2)
             success == totals.ok /\ advanced.ok
         IN  [success |-> success, threw |-> FALSE,
              nbaStats |-> advanced.col.nbaStats,
              players |-> advanced.col.players,
              endTime |-> startTime + 2,
              issued |-> <<nbaStatusWrite(IF isPlayoffs THEN NbaPlayoffs
                                          ELSE NbaRegularSeason,
                                          success, startTime, startTime + 2)>>]
    ELSE [success |-> FALSE, threw |-> FALSE, nbaStats |-> col.nbaStats,
          players |-> col.players, endTime |-> startTime, issued |-> <<>>]

(***************************************************************************)
(* The NFL league run: updateNFLData and updateFromMockData.  The mock     *)
(* teams and players are upserted; a database error is caught and turned   *)
(* into false.                                                             *)
(***************************************************************************)
NflDbError == [db |-> "error", touchdowns |-> 0]
NflOk(touchdowns) == [db |-> "ok", touchdowns |-> touchdowns]

\* Of the 32 mock teams and 33 mock players the model keeps one of each.
updateFromMockData(teamRows, playerRows, input, t) ==
    IF input.db = "error"
    THEN [success |-> FALSE, threw |-> FALSE, teams |-> teamRows,
          players |-> playerRows]
    ELSE [success |-> TRUE, threw |-> FALSE,
          teams |-> Player_upsert(teamRows, <<"nfl", "1">>,
                       [teamId |-> <<"nfl", "1">>, league |-> "NFL",
                        standings |-> [wins |-> 4, losses |-> 3],
                        lastUpdated |-> t]),
          players |-> Player_upsert(playerRows, <<"nfl", "101">>,
                       [playerId |-> <<"nfl", "101">>,
                        teamId |-> <<"nfl", "1">>, league |-> "NFL",
                        position |-> "QB",
                        stats |-> [sportStats |->
                                     [touchdowns |-> input.touchdowns]],
                        lastUpdated |-> t])]

\* Mutant of updateNFLData: the error of the mock update is not caught.
updateNFLData_uncaught(teamRows, playerRows, input, t) ==
    [updateFromMockData(teamRows, playerRows, input, t)
        EXCEPT !.threw = input.db = "error"]

updateNFLData(teamRows, playerRows, input, t) ==
    updateFromMockData(teamRows, playerRows, input, t)

(***************************************************************************)
(* The EPL league run: updateEPLData and updateFromApiFootball.  A season  *)
(* argument is <<year>>, or Null when the caller passed undefined.         *)
(***************************************************************************)
CURRENT_SEASON == 2024

StandingsError == [kind |-> "error"]
StandingsInvalid == [kind |-> "invalid"]
StandingsOk(standings) == [kind |-> "ok", teams |-> standings]

\* Team.findOneAndUpdate for every row of the standings.
RECURSIVE upsertTeams(_, _, _)
upsertTeams(teamRows, standings, t) ==
    IF standings = <<>> THEN teamRows
    ELSE upsertTeams(
            Player_upsert(teamRows, <<"epl", Head(standings).id>>,
                [teamId |-> <<"epl", Head(standings).id>>, league |-> "EPL",
                 standings |-> [rank |-> Head(standings).rank],
                 lastUpdated |-> t]),
            Tail(standings), t)

\* if (!stats || stats.games?.appearences <= 0) continue; a missing count
\* (Null) compares as null <= 0, which is true.
skipsPlayer(playerData) ==
    playerData.appearences = Null \/ playerData.appearences[1] <= 0

\* value || 0 of a count that may be missing
orZero(value) == IF value = Null THEN 0 ELSE value[1]

\* The season entry as it is built for a new season and as the assignments
\* leave an existing one.
eplSeasonStats(season, playerData, t) ==
    [season |-> season, team |-> <<"team", playerData.teamId>>,
     teamId |-> <<"epl", playerData.teamId>>,
     position |-> playerData.position,
     appearances |-> orZero(playerData.appearences),
     lineups |-> orZero(playerData.lineups),
     goals |-> playerData.goals, lastUpdated |-> t]

\* eplPlayerStats.save() casts the counts of the season entry to Number
\* (SeasonStatsSchema) and throws when one of them is not numeric, as
\* with stats.games.minutes = 'n/a'.
eplSaveThrows(playerData) == ~playerData.numeric

\* eplPlayerStats.seasons.find(s => s.season === season)
eplFindSeason(seasons, season) ==
    LET hits == {i \in 1..Len(seasons) : seasons[i].season = season}
    IN  IF hits = {} THEN 0 ELSE CHOOSE i \in hits : \A j \in hits : i <= j

\* The detail document of the player after the season is merged into it.
eplMergedDocument(store, season, playerData, t) ==
    LET eplPlayerStats ==
            IF playerData.id \in DOMAIN store THEN store[playerData.id]
            ELSE [playerId |-> playerData.id, name |-> playerData.name,
                  seasons |-> <<>>]
        i == eplFindSeason(eplPlayerStats.seasons, season)
        entry == eplSeasonStats(season, playerData, t)
    IN  [eplPlayerStats EXCEPT
            !.seasons = IF i = 0 THEN Append(@, entry)
                        ELSE [@ EXCEPT ![i] = entry]]

\* The summary row of the player; gamesPlayed reads stats.games.appearances,
\* a field the provider's statistics do not have.
eplPlayerReference(rows, playerData, t) ==
    Player_upsert(rows, <<"epl", playerData.id>>,
        [playerId |-> <<"epl", playerData.id>>,
         teamId |-> <<"epl", playerData.teamId>>, league |-> "EPL",
         name |-> playerData.name, position |-> playerData.position,
         eplStatsRef |-> playerData.id,
         stats |-> [gamesPlayed |-> orZero(playerData.appearances),
                    gamesStarted |-> orZero(playerData.lineups),
                    sportStats |-> [goals |-> playerData.goals]],
         lastUpdated |-> t])

\* The loop over allPlayers.
RECURSIVE processEplPlayers(_, _, _, _)
processEplPlayers(col, allPlayers, season, t) ==
    IF allPlayers = <<>> THEN col
    ELSE LET playerData == Head(allPlayers)
             merged ==
                 IF skipsPlayer(playerData) \/ eplSaveThrows(playerData)
                 THEN col
                 ELSE [eplStats |->
                          [id \in DOMAIN col.eplStats \cup {playerData.id} |->
                              IF id = playerData.id
                              THEN eplMergedDocument(col.eplStats, season,
                                                     playerData, t)
                              ELSE col.eplStats[id]],
                       players |-> eplPlayerReference(col.players,
                                                      playerData, t)]
         IN  processEplPlayers(merged, Tail(allPlayers), season, t)

\* updateFromApiFootball(season): the clock advances by one with each
\* request to the provider.
updateFromApiFootball(col, season, input, startTime) ==
    IF input.standings.kind # "ok"
    THEN [success |-> FALSE, teams |-> col.teams, eplStats |-> col.eplStats,
          players |-> col.players, endTime |-> startTime + 1]
    ELSE LET teamRows == upsertTeams(col.teams, input.standings.teams,
                                     startTime + 1)
             fetched == fetchAllPlayers(input.players)
             endTime == startTime + 1 + Len(fetched.requested)
         IN  IF fetched.outcome = "raised"
             THEN [success |-> FALSE, teams |-> teamRows,
                   eplStats |-> col.eplStats, players |-> col.players,
                   endTime |-> endTime]
             ELSE LET after == processEplPlayers(
                                  [eplStats |-> col.eplStats,
                                   players |-> col.players],
                                  fetched.playersData, season, endTime)
                  IN  [success |-> TRUE, teams |-> teamRows,
                       eplStats |-> after.eplStats,
                       players |-> after.players, endTime |-> endTime]

\* The SystemInfo write of eplService's logUpdateStatus, which is awaited.
eplStatusWrite(success, startTime, endTime) ==
    [key |-> "lastUpdate_" \o removeWhitespace(<<"EPL">>),
     value |-> [success |-> success, timestamp |-> endTime,
                duration |-> toFixed2(endTime - startTime)]]

\* The default of the parameter: season = CURRENT_SEASON
seasonOrDefault(season) == IF season = Null THEN CURRENT_SEASON ELSE season[1]

\* updateEPLData(season = CURRENT_SEASON)
updateEPLData(col, season, input, startTime) ==
    LET run == updateFromApiFootball(col, seasonOrDefault(season), input,
                                     startTime)
    IN  [success |-> run.success, threw |-> FALSE, teams |-> run.teams,
         eplStats |-> run.eplStats, players |-> run.players,
         endTime |-> run.endTime,
         written |-> <<eplStatusWrite(run.success, startTime, run.endTime)>>]

(***************************************************************************)
(* The SystemInfo ledger and logSeasonUpdate.                              *)
(***************************************************************************)
\* SystemInfo.findOneAndUpdate({key}, {value}, {upsert: true})
SystemInfo_upsert(store, write) ==
    [k \in DOMAIN store \cup {write.key} |->
        IF k = write.key THEN write.value ELSE store[k]]

RECURSIVE SystemInfo_upsertAll(_, _)
SystemInfo_upsertAll(store, writes) ==
    IF writes = <<>> THEN store
    ELSE SystemInfo_upsertAll(SystemInfo_upsert(store, Head(writes)),
                              Tail(writes))

\* `${season}` in a template literal
seasonText(season) == IF season = Null THEN "undefined" ELSE ToString(season[1])

\* Mutant of logSeasonUpdate: the time of the last update is written with
\* the records of the league.
logSeasonUpdate_withGlobal(operation, success, startTime, season, endTime) ==
    <<[key |-> "lastUpdate_" \o removeWhitespace(operation),
       value |-> [success |-> success, timestamp |-> endTime,
                  duration |-> toFixed2(endTime - startTime),
                  season |-> season]],
      [key |-> "lastUpdate_" \o removeWhitespace(operation) \o "_"
                  \o seasonText(season),
       value |-> [success |-> success, timestamp |-> endTime,
                  duration |-> toFixed2(endTime - startTime)]],
      [key |-> "lastUpdateTime", value |-> [timestamp |-> endTime]]>>

\* Mutant of logSeasonUpdate: the season-specific record is not written.
logSeasonUpdate_generalOnly(operation, success, startTime, season, endTime) ==
    <<[key |-> "lastUpdate_" \o removeWhitespace(operation),
       value |-> [success |-> success, timestamp |-> endTime,
                  duration |-> toFixed2(endTime - startTime),
                  season |-> season]]>>

\* logSeasonUpdate(operation, success, startTime, season): the general record
\* and the season-specific record, in the order they are written.
logSeasonUpdate(operation, success, startTime, season, endTime) ==
    <<[key |-> "lastUpdate_" \o removeWhitespace(operation),
       value |-> [success |-> success, timestamp |-> endTime,
                  duration |-> toFixed2(endTime - startTime),
                  season |-> season]],
      [key |-> "lastUpdate_" \o removeWhitespace(operation) \o "_"
                  \o seasonText(season),
       value |-> [success |-> success, timestamp |-> endTime,
                  duration |-> toFixed2(endTime - startTime)]]>>

(***************************************************************************)
(* Specification of the resolver alone: one player group of a fetch        *)
(* result is drawn, then resolved.                                         *)
(***************************************************************************)
RecordIds == 1..MaxRecordId

GroupRecords ==
    {NbaRecord(id, "p1", team, 2025, "G", games, id) :
        id \in RecordIds, team \in TeamLabels, games \in GamesValues}

\* The provider gives every row its own id.
DistinctIds(records) ==
    \A i, j \in 1..Len(records) : i # j => records[i].id # records[j].id

PlayerGroups ==
    {g \in UNION {[1..n -> GroupRecords] : n \in 1..MaxGroup} : DistinctIds(g)}

Pending == [called |-> FALSE, threw |-> FALSE, pending |-> TRUE]

NoCall == [made |-> FALSE]

\* The initial values of the variables a specification does not use.
IdleResolve == group = <<>> /\ resolved = Pending
IdleMerge == lastMerge = NoCall /\ before = <<>>
EmptyStore == nbaStats = <<>> /\ players = <<>>
IdleFetch == provider = <<>> /\ fetch = FetchStart
EmptyLeagueStore ==
    eplStats = <<>> /\ teams = <<>> /\ systemInfo = <<>> /\ inflight = <<>>

\* The default parameter of updateSportsData.
DefaultOptions ==
    [nba |-> TRUE, nfl |-> TRUE, epl |-> TRUE, nbaType |-> "regular",
     nbaSeason |-> <<2025>>, eplSeason |-> <<2024>>]
NoCycle ==
    [options |-> DefaultOptions, startTime |-> 0, nbaStartTime |-> 0,
     eplStartTime |-> 0, ran |-> <<>>]
NoReturn == [finished |-> FALSE, rejected |-> FALSE]
NoRun == [league |-> "none"]
IdleCycle ==
    /\ pc = "idle" /\ cycle = NoCycle /\ results = <<>> /\ seen = <<>>
    /\ returned = NoReturn /\ calls = 0
IdleLeagues == EmptyLeagueStore /\ IdleCycle /\ lastRun = NoRun
NoDerivation == [stage |-> "none"]
NoTrigger == [updating |-> <<>>, stage |-> <<>>]
NoShared == [config |-> <<>>, call |-> <<>>]
NoWeave == [stage |-> "none"]
IdleAux ==
    /\ derive = NoDerivation /\ trigger = NoTrigger /\ shared = NoShared
    /\ weave = NoWeave

InitResolve ==
    /\ group \in PlayerGroups
    /\ resolved = Pending
    /\ EmptyStore /\ IdleMerge /\ IdleFetch /\ IdleLeagues /\ now = 0 /\ IdleAux

Resolve ==
    /\ resolved = Pending
    /\ resolved' = processPlayerGroup(group)
    /\ UNCHANGED <<group, varsStore, varsMerge, varsFetch, varsLeagues, now,
                   varsAux>>

NextResolve == Resolve

SpecResolve == InitResolve /\ [][NextResolve]_vars

isAggregate(record) == record.team # Null /\ includesTM(record.team)

AggregateRows(records) == {i \in 1..Len(records) : isAggregate(records[i])}

TeamRows(records) == {i \in 1..Len(records) : ~isAggregate(records[i])}

\* The rows of `rows` whose provider id is the highest among `rows`.
HighestId(records, rows) ==
    {i \in rows : \A j \in rows : records[j].id <= records[i].id}

C5_NoAggregate ==
    (resolved.called /\ Len(group) > 1 /\ AggregateRows(group) = {}) =>
        /\ \E i \in 1..Len(group) :
              /\ resolved.statsRecord = group[i]
              /\ \A j \in 1..Len(group) : group[j].games <= group[i].games
        /\ \E i \in HighestId(group, 1..Len(group)) :
              resolved.team = group[i].team

\* C5 witness: the statistics source and the team source are different
\* records of the group.
C5_Witness ==
    /\ resolved.called
    /\ Len(group) > 1
    /\ AggregateRows(group) = {}
    /\ resolved.statsRecord.team = ATL
    /\ resolved.team = BOS
    /\ \E i \in 1..Len(group) :
          group[i].team = BOS /\ group[i].games < resolved.statsRecord.games

(***************************************************************************)
(* Specification of the season merger alone: updatePlayerStats is called   *)
(* with resolved records, one call after the other, on a store that starts *)
(* empty.                                                                  *)
(***************************************************************************)
NbaPlayerIds == {"p1", "p2"}
Seasons == {2024, 2025}
DataTypes == {"totals", "advanced"}

\* Two resolved records per player and season that differ in every field the
\* merge copies.
ResolvedRecords(playerId, season) ==
    {NbaRecord(1, playerId, ATL, season, "G", 1, 10),
     NbaRecord(2, playerId, BOS, season, "F", 2, 30)}

InitMerge ==
    /\ EmptyStore /\ IdleMerge /\ IdleResolve /\ IdleFetch /\ IdleLeagues
    /\ now = 0 /\ IdleAux

Merge(playerId, statsRecord, isPlayoffs, dataType) ==
    /\ now < MaxMerges
    /\ LET playerName == statsRecord.playerName
           team == statsRecord.team
           after == updatePlayerStats(nbaStats, players, playerId, playerName,
                                      team, statsRecord, isPlayoffs, dataType,
                                      now + 1)
       IN  /\ nbaStats' = after.nbaStats
           /\ players' = after.players
           /\ lastMerge' = [made |-> TRUE, playerId |-> playerId,
                            playerName |-> playerName, team |-> team,
                            statsRecord |-> statsRecord,
                            isPlayoffs |-> isPlayoffs, dataType |-> dataType]
    /\ before' = nbaStats
    /\ now' = now + 1
    /\ UNCHANGED <<varsResolve, varsFetch, varsLeagues, varsAux>>

\* The resolved records of every player and season.
MergeRecords ==
    UNION {ResolvedRecords(playerId, season) :
              playerId \in NbaPlayerIds, season \in Seasons}

NextMerge ==
    \E statsRecord \in MergeRecords, isPlayoffs \in BOOLEAN,
       dataType \in DataTypes :
        Merge(statsRecord.playerId, statsRecord, isPlayoffs, dataType)

SpecMerge == InitMerge /\ [][NextMerge]_vars

\* A season entry, a detail document and the collection without their
\* lastUpdated timestamps.
StripEntry(e) == [f \in DOMAIN e \ {"lastUpdated"} |-> e[f]]

StripSeasons(seasons) == [i \in 1..Len(seasons) |-> StripEntry(seasons[i])]

StripDocument(doc) ==
    [playerId |-> doc.playerId, name |-> doc.name,
     regularSeasons |-> StripSeasons(doc.regularSeasons),
     playoffs |-> StripSeasons(doc.playoffs)]

StripStore(store) == [id \in DOMAIN store |-> StripDocument(store[id])]

\* The collection after the last updatePlayerStats call is made once more.
MergedAgain ==
    updatePlayerStats(nbaStats, players, lastMerge.playerId,
                      lastMerge.playerName, lastMerge.team,
                      lastMerge.statsRecord, lastMerge.isPlayoffs,
                      lastMerge.dataType, now + 1).nbaStats

\* C1: after updatePlayerStats has run, running it again with the same
\* arguments leaves every detail document as it is, lastUpdated timestamps
\* aside; the first run may have created the document or the season entry.
C1_MergeIdempotent ==
    lastMerge.made => StripStore(MergedAgain) = StripStore(nbaStats)

\* The array of the phase the last call merged into.
PhaseSeasons(doc) ==
    IF lastMerge.isPlayoffs THEN doc.playoffs ELSE doc.regularSeasons

OtherSeasons(doc) ==
    IF lastMerge.isPlayoffs THEN doc.regularSeasons ELSE doc.playoffs

\* The last call merged into an entry that was already stored.
MergedIntoExisting ==
    /\ lastMerge.made
    /\ lastMerge.playerId \in DOMAIN before
    /\ \E i \in 1..Len(PhaseSeasons(before[lastMerge.playerId])) :
          PhaseSeasons(before[lastMerge.playerId])[i].season
              = lastMerge.statsRecord.season

\* C2: a merge into an existing (season, phase) entry leaves the block of the
\* other category as it was stored: an advanced merge the totals block, a
\* totals merge the advanced block.  The entry keeps its place and season,
\* every other entry of the document and every other document are unchanged.
C2_CategoryIsolation ==
    MergedIntoExisting =>
        LET old == before[lastMerge.playerId]
            new == nbaStats[lastMerge.playerId]
        IN  /\ Len(PhaseSeasons(new)) = Len(PhaseSeasons(old))
            /\ OtherSeasons(new) = OtherSeasons(old)
            /\ new.name = old.name
            /\ \A i \in 1..Len(PhaseSeasons(old)) :
                  LET o == PhaseSeasons(old)[i]
                      n == PhaseSeasons(new)[i]
                  IN  IF o.season # lastMerge.statsRecord.season
                      THEN n = o
                      ELSE /\ n.season = o.season
                           /\ lastMerge.dataType = "advanced"
                                => n.totals = o.totals
                           /\ lastMerge.dataType = "totals"
                                => n.advanced = o.advanced
            /\ \A id \in DOMAIN before \ {lastMerge.playerId} :
                  nbaStats[id] = before[id]

\* C2 witness: an advanced merge into an entry that held a totals block,
\* which changed the entry's team and its advanced block.
C2_Witness ==
    /\ MergedIntoExisting
    /\ lastMerge.dataType = "advanced"
    /\ ~lastMerge.isPlayoffs
    /\ LET o == before[lastMerge.playerId].regularSeasons[1]
           n == nbaStats[lastMerge.playerId].regularSeasons[1]
       IN  /\ o.totals # EmptyBlock
           /\ n.totals = o.totals
           /\ n.team # o.team
           /\ n.advanced = advancedBlock(lastMerge.statsRecord)
           /\ n.advanced # o.advanced

(***************************************************************************)
(* Specification of the paginated fetcher alone: a provider is drawn and   *)
(* fetchAllPlayers follows its pages, one request per step.                *)
(***************************************************************************)
Pages == 1..MaxPages

\* What page p may hold: nothing, or one player of its own.
PageContents(p) == {<<>>, <<EplPlayerData("e" \o ToString(p), "33", <<1>>, p)>>}

PageAnswers(p, total) ==
    {ErrorResponse, InvalidResponse}
        \cup {OkResponse(c, p, total) : c \in PageContents(p)}

\* A provider reports `total` pages and answers each of them; the pages after
\* the last are not there.
ProvidersOf(total) ==
    {prov \in [Pages -> UNION {PageAnswers(p, total) : p \in Pages}] :
        \A p \in Pages :
            IF p <= total THEN prov[p] \in PageAnswers(p, total)
            ELSE prov[p] = ErrorResponse}

Providers == UNION {ProvidersOf(total) : total \in Pages}

InitFetch ==
    /\ provider \in Providers
    /\ fetch = FetchStart
    /\ EmptyStore /\ IdleMerge /\ IdleResolve /\ IdleLeagues
    /\ now = 0 /\ IdleAux

FetchPage ==
    /\ fetch.outcome = "requesting"
    /\ Len(fetch.requested) < MaxRequests
    /\ fetch' = fetchStep(provider, fetch)
    /\ UNCHANGED <<provider, varsResolve, varsStore, varsMerge, varsLeagues, now,
                   varsAux>>

NextFetch == FetchPage

SpecFetch == InitFetch /\ [][NextFetch]_vars

\* The records of the first n requested pages, in request order.
RECURSIVE Collected(_)
Collected(n) ==
    IF n = 0 THEN <<>>
    ELSE Collected(n - 1) \o provider[fetch.requested[n]].response

\* The call has ended on a transport error of its k-th request.
FailedAt(k) ==
    /\ fetch.outcome # "requesting"
    /\ Len(fetch.requested) = k
    /\ provider[fetch.requested[k]].kind = "error"

\* C6 as claimed: whatever the earlier pages held, a failure of the request
\* for page k > 1 makes the call return the records of pages 1..k-1 and raise
\* no error.
C6_PartialWhateverContent ==
    \A k \in 2..MaxRequests :
        FailedAt(k) =>
            /\ fetch.outcome = "returned"
            /\ fetch.playersData = Collected(k - 1)

\* C6 as amended: when the request for page k > 1 fails and pages 1..k-1 held
\* at least one record, the call returns exactly those records in page order
\* and raises no error; when they held no record, the error is raised.  In
\* both cases pages 1..k were requested in order and no page after k.
C6_PartialWhenNonEmpty ==
    \A k \in 2..MaxRequests :
        FailedAt(k) =>
            /\ fetch.requested = [i \in 1..k |-> i]
            /\ IF Collected(k - 1) # <<>>
               THEN /\ fetch.outcome = "returned"
                    /\ fetch.playersData = Collected(k - 1)
               ELSE fetch.outcome = "raised"

\* C6 witness: page 2 of 3 fails after page 1 gave a record; the call has
\* returned that record and page 3 was not requested.
C6_Witness ==
    /\ FailedAt(2)
    /\ provider[1].total = 3
    /\ provider[3].kind = "ok"
    /\ fetch.outcome = "returned"
    /\ Len(fetch.playersData) = 1
    /\ fetch.requested = <<1, 2>>

(***************************************************************************)
(* The roster rebuild of the first NBA service: updateFromRestNbaApi       *)
(* (services/nbaService.js), exported as updateNBAData and updateNBATeam   *)
(* and reached by POST /update-nba-team/:abbr.  The clock advances by one  *)
(* with each request to the provider.                                      *)
(***************************************************************************)
\* Of the 30 teams of the list the model keeps two.
nbaTeams ==
    <<[id |-> <<"1">>, abbreviation |-> ATL],
      [id |-> <<"2">>, abbreviation |-> BOS]>>

\* params: { season: 2025 } and p.season === 2025
RestSeason == 2025

TeamError == [kind |-> "error"]
TeamOk(records) == [kind |-> "ok", data |-> records]

\* playersResponse.data.filter(p => p.season === 2025 && p.games > 0)
currentPlayers(data) ==
    SelectSeq(data, LAMBDA p : p.season = RestSeason /\ p.games > 0)

\* allPlayers[player.playerName].push({playerData, teamId}); allPlayers is
\* kept as the sequence of its keys with their entries, in insertion order.
pushPlayer(allPlayers, player, teamId) ==
    LET entry == [playerData |-> player, teamId |-> teamId]
        hits == {i \in 1..Len(allPlayers) :
                    allPlayers[i].playerName = player.playerName}
    IN  IF hits = {}
        THEN Append(allPlayers,
                    [playerName |-> player.playerName, entries |-> <<entry>>])
        ELSE LET i == CHOOSE i \in hits : TRUE
             IN  [allPlayers EXCEPT ![i].entries = Append(@, entry)]

RECURSIVE pushPlayers(_, _, _)
pushPlayers(allPlayers, records, teamId) ==
    IF records = <<>> THEN allPlayers
    ELSE pushPlayers(pushPlayer(allPlayers, Head(records), teamId),
                     Tail(records), teamId)

\* The first pass: for every team its row is upserted and its players are
\* fetched; an error of the fetch is caught and the team contributes nothing.
RECURSIVE firstPass(_, _, _, _, _)
firstPass(teamRows, allPlayers, answers, n, t) ==
    IF n > Len(nbaTeams) THEN [teams |-> teamRows, allPlayers |-> allPlayers]
    ELSE LET team == nbaTeams[n]
             teamId == <<"nba", team.id>>
             upserted ==
                 Player_upsert(teamRows, teamId,
                     [teamId |-> teamId, league |-> "NBA",
                      name |-> team.abbreviation, logo |-> "",
                      lastUpdated |-> t + n - 1])
             collected ==
                 IF answers[n].kind = "ok"
                 THEN pushPlayers(allPlayers, currentPlayers(answers[n].data),
                                  teamId)
                 ELSE allPlayers
         IN  firstPass(upserted, collected, answers, n + 1, t)

\* Player.deleteMany({ league: 'NBA' })
deleteNbaPlayers(rows) ==
    [k \in {k \in DOMAIN rows : rows[k].league # "NBA"} |-> rows[k]]

\* entriesToProcess.sort((a, b) => b.playerData.id - a.playerData.id)[0]
mostRecentEntry(entries) ==
    LET top == {i \in 1..Len(entries) :
                   \A j \in 1..Len(entries) :
                       entries[j].playerData.id <= entries[i].playerData.id}
    IN  entries[CHOOSE i \in top : \A j \in top : i <= j]

\* The body of the second loop for one player: Player.create of the most
\* recent entry.  A null team label makes includes() throw, a playerId that
\* has a row already makes create() fail on the unique index; both are
\* caught and the player is skipped.
createPlayer(rows, entries, t) ==
    IF \E i \in 1..Len(entries) : entries[i].playerData.team = Null
    THEN rows
    ELSE LET validTeamEntries ==
                 SelectSeq(entries,
                           LAMBDA e : ~includesTM(e.playerData.team))
             entriesToProcess ==
                 IF Len(validTeamEntries) > 0 THEN validTeamEntries
                 ELSE entries
             mostRecent == mostRecentEntry(entriesToProcess)
             player == mostRecent.playerData
             key == <<"nba", player.playerId>>
         IN  IF includesTM(player.team) \/ key \in DOMAIN rows THEN rows
             ELSE [k \in DOMAIN rows \cup {key} |->
                     IF k # key THEN rows[k]
                     ELSE Player_insert(
                            [playerId |-> key, teamId |-> mostRecent.teamId,
                             league |-> "NBA", name |-> player.playerName,
                             position |-> player.position, number |-> "",
                             age |-> player.age,
                             stats |-> [gamesPlayed |-> player.games,
                                        sportStats |->
                                            [points |-> player.points]],
                             lastUpdated |-> t])]

RECURSIVE createPlayers(_, _, _)
createPlayers(rows, allPlayers, t) ==
    IF allPlayers = <<>> THEN rows
    ELSE createPlayers(createPlayer(rows, Head(allPlayers).entries, t),
                       Tail(allPlayers), t)

\* updateFromRestNbaApi(): the two collections after the call.
updateFromRestNbaApi(teamRows, playerRows, answers, startTime) ==
    LET first == firstPass(teamRows, <<>>, answers, 1, startTime)
        endTime == startTime + Len(nbaTeams)
    IN  [success |-> TRUE, teams |-> first.teams,
         players |-> createPlayers(deleteNbaPlayers(playerRows),
                                   first.allPlayers, endTime),
         endTime |-> endTime]

(***************************************************************************)
(* Inputs of the league runs.                                              *)
(***************************************************************************)
\* The records the provider holds for a season: a traded player with his
\* roll-up row, a player of one team and a record without a playerId.
NbaRoster(season) ==
    <<NbaRecord(1, "p1", TwoTM, season, "G", 2, 30),
      NbaRecord(2, "p1", ATL, season, "G", 1, 10),
      NbaRecord(3, "p1", BOS, season, "G", 1, 20),
      NbaRecord(4, "p2", BOS, season, "F", 2, 40),
      NbaRecord(5, "", ATL, season, "C", 1, 50)>>

NbaAnswers(season) == {NbaError, NbaInvalid, NbaOk(NbaRoster(season))}

\* Records of which some cannot be processed: a player of two teams with
\* a record that has no team, a player without a name, and after them a
\* player whose record is whole.
NbaRosterFaulty(season) ==
    <<[NbaRecord(6, "p3", ATL, season, "G", 1, 10) EXCEPT !.team = Null],
      NbaRecord(7, "p3", BOS, season, "G", 1, 20),
      [NbaRecord(8, "p4", ATL, season, "C", 1, 50) EXCEPT !.playerName = Null],
      NbaRecord(4, "p2", BOS, season, "F", 2, 40)>>

NbaFaultyAnswers(season) ==
    {[totals |-> NbaOk(NbaRosterFaulty(season)),
      advanced |-> NbaOk(NbaRosterFaulty(season))],
     [totals |-> NbaOk(NbaRosterFaulty(season)), advanced |-> NbaError]}

\* An array of which one element is null, after a record that is whole.
NbaRosterBroken(season) ==
    <<NbaRecord(4, "p2", BOS, season, "F", 2, 40), Null>>

NbaBrokenAnswers(season) ==
    {[totals |-> NbaOk(NbaRosterBroken(season)),
      advanced |-> NbaOk(NbaRoster(season))]}

NbaTypes == {"regular", "playoff", "preseason"}
NbaSeasonArgs == {<<2024>>, <<2025>>}

\* A season argument with the answers to the two requests of its run.
NbaInputs ==
    UNION {{[season |-> season, totals |-> totals, advanced |-> advanced] :
               totals \in NbaAnswers(season[1]),
               advanced \in NbaAnswers(season[1])} :
              season \in NbaSeasonArgs}
    \cup UNION {{[season |-> season, totals |-> answers.totals,
                  advanced |-> answers.advanced] :
                    answers \in NbaFaultyAnswers(season[1])
                                \cup NbaBrokenAnswers(season[1])} :
                 season \in NbaSeasonArgs}

EplSeasonArgs == {<<2023>>, <<2024>>, Null}

NflInputs == {NflDbError, NflOk(0), NflOk(7)}

EplStandings == <<[id |-> "33", rank |-> 1], [id |-> "40", rank |-> 2]>>

\* The players endpoint: every request fails; one page of two players, one
\* of them without appearances; two pages; two pages of which the second
\* fails.
FirstPageFails == [p \in Pages |-> ErrorResponse]

OnePage ==
    [p \in Pages |->
        IF p = 1
        THEN OkResponse(<<EplPlayerData("e1", "33", <<3>>, 2),
                          EplPlayerData("e2", "40", Null, 0)>>, 1, 1)
        ELSE ErrorResponse]

TwoPages ==
    [p \in Pages |->
        IF p = 1 THEN OkResponse(<<EplPlayerData("e1", "33", <<3>>, 2)>>, 1, 2)
        ELSE IF p = 2
        THEN OkResponse(<<EplPlayerData("e2", "40", <<1>>, 0)>>, 2, 2)
        ELSE ErrorResponse]

SecondPageFails ==
    [p \in Pages |->
        IF p = 1 THEN OkResponse(<<EplPlayerData("e1", "40", <<4>>, 3)>>, 1, 2)
        ELSE ErrorResponse]

\* A page with a player whose detail document cannot be saved, before a
\* player whose statistics are whole.
FaultyPage ==
    [p \in Pages |->
        IF p = 1
        THEN OkResponse(
                <<[EplPlayerData("e3", "33", <<2>>, 1) EXCEPT !.numeric = FALSE],
                  EplPlayerData("e1", "33", <<3>>, 2)>>, 1, 1)
        ELSE ErrorResponse]

EplInputs ==
    {[standings |-> s, players |-> FirstPageFails] :
        s \in {StandingsError, StandingsInvalid}}
    \cup {[standings |-> StandingsOk(EplStandings), players |-> prov] :
            prov \in {FirstPageFails, OnePage, TwoPages, SecondPageFails,
                      FaultyPage}}

(***************************************************************************)
(* Specification of the league runs: updateNbaDataOnly, updateNflDataOnly  *)
(* and updateEplDataOnly are called one after the other on collections     *)
(* that start empty.  The status write updateNbaStats does not await lands *)
(* at any later time.                                                      *)
(***************************************************************************)
Collections ==
    [nbaStats |-> nbaStats, eplStats |-> eplStats, players |-> players,
     teams |-> teams]

InitLeagues ==
    /\ EmptyStore /\ IdleLeagues
    /\ IdleMerge /\ IdleResolve /\ IdleFetch
    /\ now = 0 /\ IdleAux

\* updateNbaDataOnly(type, season)
UpdateNbaOnly(type, season, answers) ==
    /\ calls < MaxCalls
    /\ LET run == updateNbaStats(Collections, type, answers, now)
           logged == logSeasonUpdate(<<"NBA">>, run.success, now, season,
                                     run.endTime)
           result == IF run.threw THEN FALSE ELSE run.success
       IN  /\ nbaStats' = run.nbaStats
           /\ players' = run.players
           /\ inflight' = inflight \o run.issued
           /\ systemInfo' = IF run.threw THEN systemInfo
                            ELSE SystemInfo_upsertAll(systemInfo, logged)
           /\ now' = run.endTime + 1
           /\ lastRun' = [league |-> "nba", type |-> type, season |-> season,
                          input |-> answers, result |-> result,
                          before |-> Collections]
    /\ calls' = calls + 1
    /\ UNCHANGED <<eplStats, teams, varsCycle>>
    /\ UNCHANGED <<varsResolve, varsMerge, varsFetch, varsAux>>

\* updateNflDataOnly()
UpdateNflOnly(input) ==
    /\ calls < MaxCalls
    /\ LET run == updateNFLData(teams, players, input, now + 1)
       IN  /\ teams' = run.teams
           /\ players' = run.players
           /\ lastRun' = [league |-> "nfl", input |-> input,
                          result |-> IF run.threw THEN FALSE ELSE run.success,
                          before |-> Collections]
    /\ now' = now + 1
    /\ calls' = calls + 1
    /\ UNCHANGED <<nbaStats, eplStats, systemInfo, inflight, varsCycle>>
    /\ UNCHANGED <<varsResolve, varsMerge, varsFetch, varsAux>>

\* updateEplDataOnly(season)
UpdateEplOnly(season, input) ==
    /\ calls < MaxCalls
    /\ LET run == updateEPLData(Collections, season, input, now)
           logged == logSeasonUpdate(<<"EPL">>, run.success, now, season,
                                     run.endTime + 1)
           result == IF run.threw THEN FALSE ELSE run.success
       IN  /\ teams' = run.teams
           /\ eplStats' = run.eplStats
           /\ players' = run.players
           /\ systemInfo' =
                 IF run.threw THEN systemInfo
                 ELSE SystemInfo_upsertAll(systemInfo, run.written \o logged)
           /\ now' = run.endTime + 2
           /\ lastRun' = [league |-> "epl", season |-> season,
                          input |-> input, result |-> result,
                          before |-> Collections]
    /\ calls' = calls + 1
    /\ UNCHANGED <<nbaStats, inflight, varsCycle>>
    /\ UNCHANGED <<varsResolve, varsMerge, varsFetch, varsAux>>

\* What the provider answers to the requests of the roster rebuild, team by
\* team: every request fails; both succeed, with a traded player, a player of
\* one team and a player without games; the second request fails.
RestInputs ==
    {<<TeamError, TeamError>>,
     <<TeamOk(<<NbaRecord(2, "p1", ATL, RestSeason, "G", 1, 10)>>),
       TeamOk(<<NbaRecord(3, "p1", BOS, RestSeason, "G", 1, 20),
                NbaRecord(4, "p2", BOS, RestSeason, "F", 2, 40),
                NbaRecord(1, "p3", BOS, RestSeason, "C", 0, 0)>>)>>,
     <<TeamOk(<<NbaRecord(2, "p1", ATL, RestSeason, "G", 1, 10)>>),
       TeamError>>}

\* POST /update-nba-team/:abbr: updateNBATeam(teamAbbr)
UpdateNBATeam(answers) ==
    /\ calls < MaxCalls
    /\ LET run == updateFromRestNbaApi(teams, players, answers, now)
       IN  /\ teams' = run.teams
           /\ players' = run.players
           /\ now' = run.endTime + 1
           /\ lastRun' = [league |-> "nbaTeam", input |-> answers,
                          result |-> run.success, before |-> Collections]
    /\ calls' = calls + 1
    /\ UNCHANGED <<nbaStats, eplStats, systemInfo, inflight, varsCycle>>
    /\ UNCHANGED <<varsResolve, varsMerge, varsFetch, varsAux>>

\* The SystemInfo write that was issued without await reaches the database.
StatusWriteLands ==
    /\ \E i \in 1..Len(inflight) :
          /\ systemInfo' = SystemInfo_upsert(systemInfo, inflight[i])
          /\ inflight' = [j \in 1..(Len(inflight) - 1) |->
                             IF j < i THEN inflight[j] ELSE inflight[j + 1]]
    /\ UNCHANGED <<nbaStats, eplStats, players, teams, now, varsCycle,
                   calls, lastRun>>
    /\ UNCHANGED <<varsResolve, varsMerge, varsFetch, varsAux>>

NextLeagues ==
    \/ \E type \in NbaTypes, input \in NbaInputs :
          UpdateNbaOnly(type, input.season,
                        [totals |-> input.totals, advanced |-> input.advanced])
    \/ \E input \in NflInputs : UpdateNflOnly(input)
    \/ \E season \in EplSeasonArgs, input \in EplInputs :
          UpdateEplOnly(season, input)
    \/ \E answers \in RestInputs : UpdateNBATeam(answers)
    \/ StatusWriteLands

SpecLeagues == InitLeagues /\ [][NextLeagues]_vars

(***************************************************************************)
(* Specification of the orchestrator: updateSportsData(options) is called  *)
(* and runs through its stages, one await at a time.  pc is "idle" between *)
(* calls; the leagues' providers answer as they are asked.                 *)
(***************************************************************************)
\* The stage updateSportsData enters after `stage`: the three if-blocks in
\* program order, then the final ledger write.
stageAfter_nflFirst(options, stage) ==
    IF stage = "start" /\ options.nfl THEN "nfl"
    ELSE IF stage \in {"start", "nfl"} /\ options.nba THEN "nba"
    ELSE IF stage \in {"start", "nba", "nfl"} /\ options.epl THEN "epl"
    ELSE "finish"

stageAfter(options, stage) ==
    IF stage = "start" /\ options.nba THEN "nba"
    ELSE IF stage \in {"start", "nba"} /\ options.nfl THEN "nfl"
    ELSE IF stage \in {"start", "nba", "nfl"} /\ options.epl THEN "epl"
    ELSE "finish"

\* The options of a call.  The type and season of a league that is switched
\* off are not read; they are fixed to the configured ones.  POST /update
\* passes no eplSeason.
CycleOptions ==
    {[nba |-> nba, nfl |-> nfl, epl |-> epl, nbaType |-> nbaType,
      nbaSeason |-> nbaSeason, eplSeason |-> eplSeason] :
        nba \in BOOLEAN, nfl \in BOOLEAN, epl \in BOOLEAN,
        nbaType \in NbaTypes, nbaSeason \in NbaSeasonArgs,
        eplSeason \in {<<2024>>, Null}}

\* What the providers answer in a call of the orchestrator: for each league
\* an answer that makes its update succeed and answers that make it fail.
CycleNbaAnswers(season) ==
    {[totals |-> NbaOk(NbaRoster(season)), advanced |-> NbaOk(NbaRoster(season))],
     [totals |-> NbaError, advanced |-> NbaOk(NbaRoster(season))],
     [totals |-> NbaOk(NbaRoster(season)), advanced |-> NbaInvalid]}

CycleNflInputs == {NflDbError, NflOk(7)}

CycleEplInputs ==
    {[standings |-> StandingsError, players |-> FirstPageFails],
     [standings |-> StandingsOk(EplStandings), players |-> FirstPageFails],
     [standings |-> StandingsOk(EplStandings), players |-> OnePage]}

\* No request is made for a type that is neither 'regular' nor 'playoff'.
NoAnswers == [totals |-> NbaError, advanced |-> NbaError]

ReadOptions ==
    {o \in CycleOptions :
        /\ ~o.nba => o.nbaType = "regular" /\ o.nbaSeason = <<2025>>
        /\ ~o.epl => o.eplSeason = <<2024>>}

Init ==
    /\ EmptyStore /\ IdleLeagues
    /\ IdleMerge /\ IdleResolve /\ IdleFetch
    /\ now = 0 /\ IdleAux

\* updateSportsData(options) is called.
StartCycle(options) ==
    /\ pc = "idle"
    /\ calls < MaxCycles
    /\ cycle' = [options |-> options, startTime |-> now, nbaStartTime |-> 0,
                 eplStartTime |-> 0, ran |-> <<>>]
    /\ results' = <<>>
    /\ seen' = <<>>
    /\ returned' = NoReturn
    /\ pc' = stageAfter(options, "start")
    /\ calls' = calls + 1
    /\ UNCHANGED <<nbaStats, eplStats, players, teams, systemInfo, inflight,
                   now, lastRun>>
    /\ UNCHANGED <<varsResolve, varsMerge, varsFetch, varsAux>>

\* An exception that leaves a league's update is not caught by
\* updateSportsData: the call rejects there and then.
Rejected == [finished |-> FALSE, rejected |-> TRUE]

\* results.nba = await updateNbaStats(options.nbaType, options.nbaSeason)
RunNba(answers) ==
    /\ pc = "nba"
    /\ LET run == updateNbaStats(Collections, cycle.options.nbaType, answers,
                                 now)
       IN  /\ nbaStats' = run.nbaStats
           /\ players' = run.players
           /\ inflight' = inflight \o run.issued
           /\ now' = run.endTime
           /\ results' = IF run.threw THEN results
                         ELSE ("nba" :> run.success) @@ results
           /\ pc' = IF run.threw THEN "idle" ELSE "nbaLog"
           /\ returned' = IF run.threw THEN Rejected ELSE returned
    /\ cycle' = [cycle EXCEPT !.nbaStartTime = now, !.ran = Append(@, "nba")]
    /\ seen' = ("nba" :> [type |-> cycle.options.nbaType, answers |-> answers])
                  @@ seen
    /\ cycle.options.nbaType \notin {"regular", "playoff"} => answers = NoAnswers
    /\ UNCHANGED <<eplStats, teams, systemInfo, calls, lastRun>>
    /\ UNCHANGED <<varsResolve, varsMerge, varsFetch, varsAux>>

\* await logSeasonUpdate('NBA', results.nba, nbaStartTime, options.nbaSeason)
LogNba ==
    /\ pc = "nbaLog"
    /\ systemInfo' =
          SystemInfo_upsertAll(systemInfo,
              logSeasonUpdate(<<"NBA">>, results.nba, cycle.nbaStartTime,
                              cycle.options.nbaSeason, now))
    /\ now' = now + 1
    /\ pc' = stageAfter(cycle.options, "nba")
    /\ UNCHANGED <<nbaStats, eplStats, players, teams, inflight, cycle,
                   results, seen, returned, calls, lastRun>>
    /\ UNCHANGED <<varsResolve, varsMerge, varsFetch, varsAux>>

\* results.nfl = await updateNFLData()
RunNfl(input) ==
    /\ pc = "nfl"
    /\ LET run == updateNFLData(teams, players, input, now + 1)
       IN  /\ teams' = run.teams
           /\ players' = run.players
           /\ results' = IF run.threw THEN results
                         ELSE ("nfl" :> run.success) @@ results
           /\ pc' = IF run.threw THEN "idle"
                    ELSE stageAfter(cycle.options, "nfl")
           /\ returned' = IF run.threw THEN Rejected ELSE returned
    /\ now' = now + 1
    /\ cycle' = [cycle EXCEPT !.ran = Append(@, "nfl")]
    /\ seen' = ("nfl" :> input) @@ seen
    /\ UNCHANGED <<nbaStats, eplStats, systemInfo, inflight, calls, lastRun>>
    /\ UNCHANGED <<varsResolve, varsMerge, varsFetch, varsAux>>

\* results.epl = await updateEPLData(options.eplSeason)
RunEpl(input) ==
    /\ pc = "epl"
    /\ LET run == updateEPLData(Collections, cycle.options.eplSeason, input,
                                now)
       IN  /\ teams' = run.teams
           /\ eplStats' = run.eplStats
           /\ players' = run.players
           /\ systemInfo' = SystemInfo_upsertAll(systemInfo, run.written)
           /\ now' = run.endTime + 1
           /\ results' = IF run.threw THEN results
                         ELSE ("epl" :> run.success) @@ results
           /\ pc' = IF run.threw THEN "idle" ELSE "eplLog"
           /\ returned' = IF run.threw THEN Rejected ELSE returned
    /\ cycle' = [cycle EXCEPT !.eplStartTime = now, !.ran = Append(@, "epl")]
    /\ seen' = ("epl" :> input) @@ seen
    /\ UNCHANGED <<nbaStats, inflight, calls, lastRun>>
    /\ UNCHANGED <<varsResolve, varsMerge, varsFetch, varsAux>>

\* await logSeasonUpdate('EPL', results.epl, eplStartTime, options.eplSeason)
LogEpl ==
    /\ pc = "eplLog"
    /\ systemInfo' =
          SystemInfo_upsertAll(systemInfo,
              logSeasonUpdate(<<"EPL">>, results.epl, cycle.eplStartTime,
                              cycle.options.eplSeason, now))
    /\ now' = now + 1
    /\ pc' = stageAfter(cycle.options, "epl")
    /\ UNCHANGED <<nbaStats, eplStats, players, teams, inflight, cycle,
                   results, seen, returned, calls, lastRun>>
    /\ UNCHANGED <<varsResolve, varsMerge, varsFetch, varsAux>>

\* The lastUpdateTime write and the return of updateSportsData.
FinishCycle ==
    /\ pc = "finish"
    /\ systemInfo' =
          SystemInfo_upsert(systemInfo,
              [key |-> "lastUpdateTime", value |-> [timestamp |-> now]])
    /\ returned' = [finished |-> TRUE, rejected |-> FALSE,
                    results |-> results,
                    duration |-> now - cycle.startTime, timestamp |-> now,
                    options |-> cycle.options]
    /\ now' = now + 1
    /\ pc' = "idle"
    /\ UNCHANGED <<nbaStats, eplStats, players, teams, inflight, cycle,
                   results, seen, calls, lastRun>>
    /\ UNCHANGED <<varsResolve, varsMerge, varsFetch, varsAux>>

CycleStep ==
    \/ \E answers \in CycleNbaAnswers(cycle.options.nbaSeason[1]) \cup {NoAnswers} :
          RunNba(answers)
    \/ LogNba
    \/ \E input \in CycleNflInputs : RunNfl(input)
    \/ \E input \in CycleEplInputs : RunEpl(input)
    \/ LogEpl
    \/ FinishCycle
    \/ StatusWriteLands

Next ==
    \/ \E options \in ReadOptions : StartCycle(options)
    \/ CycleStep

Spec == Init /\ [][Next]_vars

\* The event loop runs every continuation that is ready: a call that has
\* started is carried through its stages.
FairSpec == Spec /\ WF_vars(CycleStep)

(***************************************************************************)
(* Properties of the league runs (SpecLeagues).                            *)
(***************************************************************************)
DistinctSeasons(seasons) ==
    \A i, j \in 1..Len(seasons) :
        i # j => seasons[i].season # seasons[j].season

\* C3: after any sequence of NBA and EPL league runs, every NBA detail
\* document holds at most one entry per season in regularSeasons and at most
\* one per season in playoffs, and every EPL detail document holds at most
\* one entry per season in seasons.
C3_SeasonEntryUnique ==
    /\ \A id \in DOMAIN nbaStats :
          /\ DistinctSeasons(nbaStats[id].regularSeasons)
          /\ DistinctSeasons(nbaStats[id].playoffs)
    /\ \A id \in DOMAIN eplStats : DistinctSeasons(eplStats[id].seasons)

\* C3 witness: a second EPL run of a season the player already had an entry
\* for has rewritten that entry, and it is still the only one.
C3_Witness ==
    /\ lastRun.league = "epl"
    /\ lastRun.result
    /\ "e1" \in DOMAIN lastRun.before.eplStats
    /\ Len(lastRun.before.eplStats["e1"].seasons) = 1
    /\ Len(eplStats["e1"].seasons) = 1
    /\ eplStats["e1"].seasons[1].season = 2024
    /\ eplStats["e1"].seasons[1].lastUpdated
          > lastRun.before.eplStats["e1"].seasons[1].lastUpdated

\* The last call was an EPL run whose standings request was answered and
\* whose request for page 1 of the players failed.
FirstPageFailed ==
    /\ lastRun.league = "epl"
    /\ lastRun.input.standings.kind = "ok"
    /\ lastRun.input.players[1].kind = "error"

\* C7: when the request for page 1 fails, fetchAllPlayers raises the error
\* and the EPL run reports false; no player detail document and no player
\* summary row is created or changed by it.
C7_FirstPageFailure ==
    FirstPageFailed =>
        /\ fetchAllPlayers(lastRun.input.players).outcome = "raised"
        /\ fetchAllPlayers(lastRun.input.players).requested = <<1>>
        /\ lastRun.result = FALSE
        /\ eplStats = lastRun.before.eplStats
        /\ players = lastRun.before.players
        /\ nbaStats = lastRun.before.nbaStats

\* C7 witness: the run failed on page 1 after an earlier run had stored
\* players; it left them as they were and did update the teams.
C7_Witness ==
    /\ FirstPageFailed
    /\ lastRun.result = FALSE
    /\ "e1" \in DOMAIN eplStats
    /\ <<"epl", "e1">> \in DOMAIN players
    /\ eplStats = lastRun.before.eplStats
    /\ teams # lastRun.before.teams

(***************************************************************************)
(* Properties of the orchestrator (Spec, FairSpec).                        *)
(***************************************************************************)
\* A call of updateSportsData has ended.
CycleEnded == pc = "idle" /\ calls > 0

AllEnabled == cycle.options.nba /\ cycle.options.nfl /\ cycle.options.epl

\* What a league's update returns, from what its own provider answered.
NbaOutcome(in) ==
    /\ in.type \in {"regular", "playoff"}
    /\ in.answers.totals.kind = "ok"
    /\ in.answers.advanced.kind = "ok"

NflOutcome(in) == in.db = "ok"

EplOutcome(in) ==
    /\ in.standings.kind = "ok"
    /\ fetchAllPlayers(in.players).outcome = "returned"

EnabledLeagues(options) ==
    SelectSeq(<<"nba", "nfl", "epl">>, LAMBDA league : options[league])

IsPrefix(s, t) == Len(s) <= Len(t) /\ s = SubSeq(t, 1, Len(s))

\* C9: at every moment of a call the leagues run so far are a prefix of the
\* enabled leagues in the order NBA, NFL, EPL, so that no league runs twice
\* and no disabled league runs; when the call has ended it has returned and
\* every enabled league has run, whatever the outcomes; and every call that
\* has started ends.
C9_CycleOrder ==
    /\ [](/\ IsPrefix(cycle.ran, EnabledLeagues(cycle.options))
          /\ CycleEnded =>
                /\ returned.finished
                /\ cycle.ran = EnabledLeagues(cycle.options))
    /\ (pc # "idle" ~> pc = "idle")

\* C9 witness: a call with NFL disabled has ended after running NBA, which
\* failed, and then EPL.
C9_Witness ==
    /\ CycleEnded
    /\ returned.finished
    /\ ~cycle.options.nfl
    /\ cycle.ran = <<"nba", "epl">>
    /\ ~results["nba"]

\* `${season}`
SeasonName(season) == IF season = Null THEN "undefined" ELSE ToString(season[1])

\* The ledger entry under key carries the flag and the duration, measured
\* from startTime, of a run of this call.
LedgerEntry(key, success, startTime) ==
    /\ key \in DOMAIN systemInfo
    /\ systemInfo[key].success = success
    /\ systemInfo[key].timestamp >= startTime
    /\ systemInfo[key].timestamp <= returned.timestamp
    /\ systemInfo[key].duration
          = ToString(systemInfo[key].timestamp - startTime) \o ".00"

GlobalEntry ==
    /\ "lastUpdateTime" \in DOMAIN systemInfo
    /\ systemInfo["lastUpdateTime"].timestamp = returned.timestamp

MaxStat == 2        \* counting statistics of a totals record are 0..MaxStat
MaxGames == 2       \* games of a totals record are 0..MaxGames

JsNumber(n) == [kind |-> "number", num |-> n, den |-> 1]
NaN == [kind |-> "NaN", num |-> 0, den |-> 0]
Infinity == [kind |-> "Infinity", num |-> 1, den |-> 0]

\* a / b on non-negative JS numbers
jsDivide(a, b) ==
    IF b # 0 THEN [kind |-> "number", num |-> a, den |-> b]
    ELSE IF a = 0 THEN NaN ELSE Infinity

\* A totals record of the provider: the counting statistics follow the
\* three that are drawn.
TotalsRecord(games, points, totalRb, assists) ==
    [games |-> games, minutesPg |-> games, points |-> points,
     totalRb |-> totalRb, assists |-> assists, steals |-> assists,
     blocks |-> totalRb, turnovers |-> assists, fieldGoals |-> points,
     fieldAttempts |-> points + 1, fieldPercent |-> 1, threeFg |-> points,
     threeAttempts |-> points + 1, threePercent |-> 1, ft |-> points,
     ftAttempts |-> points + 1, ftPercent |-> 1]

\* calculatePerGameStats(totals, gamesPlayed); gamesPlayed is <<n>> or Null.
calculatePerGameStats(totals, gamesPlayed) ==
    IF gamesPlayed = Null \/ gamesPlayed[1] = 0
    THEN [minutes |-> JsNumber(0), points |-> JsNumber(0),
          rebounds |-> JsNumber(0), assists |-> JsNumber(0),
          steals |-> JsNumber(0), blocks |-> JsNumber(0),
          turnovers |-> JsNumber(0), fg_made |-> JsNumber(0),
          fg_att |-> JsNumber(0), fg_pct |-> JsNumber(0),
          three_made |-> JsNumber(0), three_att |-> JsNumber(0),
          three_pct |-> JsNumber(0), ft_made |-> JsNumber(0),
          ft_att |-> JsNumber(0), ft_pct |-> JsNumber(0)]
    ELSE LET g == gamesPlayed[1]
         IN  [minutes |-> JsNumber(totals.minutesPg),
              points |-> jsDivide(totals.points, g),
              rebounds |-> jsDivide(totals.totalRb, g),
              assists |-> jsDivide(totals.assists, g),
              steals |-> jsDivide(totals.steals, g),
              blocks |-> jsDivide(totals.blocks, g),
              turnovers |-> jsDivide(totals.turnovers, g),
              fg_made |-> jsDivide(totals.fieldGoals, g),
              fg_att |-> jsDivide(totals.fieldAttempts, g),
              fg_pct |-> JsNumber(totals.fieldPercent),
              three_made |-> jsDivide(totals.threeFg, g),
              three_att |-> jsDivide(totals.threeAttempts, g),
              three_pct |-> JsNumber(totals.threePercent),
              ft_made |-> jsDivide(totals.ft, g),
              ft_att |-> jsDivide(totals.ftAttempts, g),
              ft_pct |-> JsNumber(totals.ftPercent)]

\* The per-game constants updatePlayerReference computes: ppg, rpg, apg,
\* bpg, spg.
perGameOfReference(statsRecord) ==
    [ppg |-> jsDivide(statsRecord.points, statsRecord.games),
     rpg |-> jsDivide(statsRecord.totalRb, statsRecord.games),
     apg |-> jsDivide(statsRecord.assists, statsRecord.games),
     bpg |-> jsDivide(statsRecord.blocks, statsRecord.games),
     spg |-> jsDivide(statsRecord.steals, statsRecord.games)]

(***************************************************************************)
(* Specification of the per-game derivations: a totals record is drawn,    *)
(* then calculatePerGameStats and updatePlayerReference derive from it.    *)
(***************************************************************************)
TotalsRecords ==
    {TotalsRecord(games, points, totalRb, assists) :
        games \in 0..MaxGames, points \in 0..MaxStat,
        totalRb \in 0..MaxStat, assists \in 0..MaxStat}

InitPerGame ==
    /\ derive \in {[stage |-> "drawn", statsRecord |-> r, gamesPlayed |-> Null,
                    calculated |-> FALSE, perGame |-> <<>>,
                    linked |-> FALSE, figures |-> <<>>] : r \in TotalsRecords}
    /\ EmptyStore /\ IdleMerge /\ IdleResolve /\ IdleFetch /\ IdleLeagues
    /\ now = 0 /\ trigger = NoTrigger /\ shared = NoShared /\ weave = NoWeave

\* calculatePerGameStats(totals, totals.games), or without the games.
CalculatePerGame(gamesPlayed) ==
    /\ derive.stage = "drawn" /\ ~derive.calculated
    /\ derive' = [derive EXCEPT
                    !.calculated = TRUE, !.gamesPlayed = gamesPlayed,
                    !.perGame = calculatePerGameStats(derive.statsRecord,
                                                      gamesPlayed)]
    /\ UNCHANGED <<varsResolve, varsStore, varsMerge, varsFetch, varsLeagues,
                   now, trigger, shared, weave>>

\* updatePlayerReference(playerId, playerName, team, statsRecord), lines
\* 442-446.
LinkPerGame ==
    /\ derive.stage = "drawn" /\ ~derive.linked
    /\ derive' = [derive EXCEPT
                    !.linked = TRUE,
                    !.figures = perGameOfReference(derive.statsRecord)]
    /\ UNCHANGED <<varsResolve, varsStore, varsMerge, varsFetch, varsLeagues,
                   now, trigger, shared, weave>>

NextPerGame ==
    \/ \E withGames \in BOOLEAN :
          CalculatePerGame(IF withGames THEN <<derive.statsRecord.games>>
                           ELSE Null)
    \/ LinkPerGame

SpecPerGame == InitPerGame /\ [][NextPerGame]_vars

IsZero(x) == x.kind = "number" /\ x.num = 0

AllZero(figures) == \A f \in DOMAIN figures : IsZero(figures[f])

\* C11: for a totals record whose games value is 0, every per-game figure
\* derived by calculatePerGameStats and by updatePlayerReference is 0, and
\* no division by zero is evaluated (no figure is NaN or Infinity).
C11_DivisionGuard ==
    (derive.stage = "drawn" /\ derive.statsRecord.games = 0) =>
        /\ (derive.calculated /\ derive.gamesPlayed # Null) =>
                AllZero(derive.perGame)
        /\ derive.linked => AllZero(derive.figures)

(***************************************************************************)
(* Scope of the summary linker in a call of the orchestrator (Spec).       *)
(***************************************************************************)
\* sportsConfig.nba.currentSeason
NbaCurrentSeason == 2025

\* The NBA summary rows written since the call started.
NbaRowsWritten ==
    {k \in DOMAIN players :
        k[1] = "nba" /\ players[k].lastUpdated > cycle.startTime}

\* The summary rows of the distinct players of a fetch result.
RowsOf(playerData) ==
    LET keys == groupKeys(playerData, <<>>)
    IN  {<<"nba", keys[i]>> : i \in 1..Len(keys)}

NbaStageDone == "nba" \in DOMAIN seen

\* The call merges regular-phase totals.
MergesRegularTotals ==
    /\ seen["nba"].type = "regular"
    /\ seen["nba"].answers.totals.kind = "ok"

\* C12: the summary row of a player is written (once, by the keyed upsert)
\* in a call that merges regular-phase totals for the current season, and
\* no summary row is written in a call for a historical season, for the
\* playoffs, or that merges the advanced category only.
C12_LinkerScope ==
    NbaStageDone =>
        IF MergesRegularTotals /\ cycle.options.nbaSeason = <<NbaCurrentSeason>>
        THEN NbaRowsWritten = RowsOf(seen["nba"].answers.totals.data)
        ELSE NbaRowsWritten = {}

(***************************************************************************)
(* Stored data across league runs and the roster rebuild (SpecLeagues).    *)
(***************************************************************************)
\* A request of the last run to its provider failed or was answered with an
\* invalid body.
FetchFailed ==
    \/ /\ lastRun.league = "nba"
       /\ lastRun.type \in {"regular", "playoff"}
       /\ \/ lastRun.input.totals.kind # "ok"
          \/ lastRun.input.advanced.kind # "ok"
    \/ /\ lastRun.league = "epl"
       /\ \/ lastRun.input.standings.kind # "ok"
          \/ LET requested == fetchAllPlayers(lastRun.input.players).requested
             IN  \E i \in 1..Len(requested) :
                    lastRun.input.players[requested[i]].kind # "ok"
    \/ /\ lastRun.league = "nbaTeam"
       /\ \E n \in 1..Len(lastRun.input) : lastRun.input[n].kind # "ok"

\* Every request of the last run failed.
EveryFetchFailed ==
    \/ /\ lastRun.league = "nba"
       /\ lastRun.type \in {"regular", "playoff"}
       /\ lastRun.input.totals.kind # "ok"
       /\ lastRun.input.advanced.kind # "ok"
    \/ /\ lastRun.league = "epl"
       /\ lastRun.input.standings.kind # "ok"
    \/ /\ lastRun.league = "nbaTeam"
       /\ \A n \in 1..Len(lastRun.input) : lastRun.input[n].kind # "ok"

\* Every row of `old` and every field of it is still there in `new`.
RowsKept(old, new) ==
    \A k \in DOMAIN old :
        /\ k \in DOMAIN new
        /\ DOMAIN old[k] \subseteq DOMAIN new[k]

\* Every season entry of `old` is still there in `new`, and a block that was
\* filled is not empty.
SeasonsKept(old, new) ==
    \A i \in 1..Len(old) :
        \E j \in 1..Len(new) :
            /\ new[j].season = old[i].season
            /\ \A f \in DOMAIN old[i] :
                  /\ f \in DOMAIN new[j]
                  /\ (f \in {"totals", "advanced"} /\ DOMAIN old[i][f] # {})
                        => DOMAIN new[j][f] # {}

NbaStatsKept(old, new) ==
    \A id \in DOMAIN old :
        /\ id \in DOMAIN new
        /\ SeasonsKept(old[id].regularSeasons, new[id].regularSeasons)
        /\ SeasonsKept(old[id].playoffs, new[id].playoffs)

EplStatsKept(old, new) ==
    \A id \in DOMAIN old :
        id \in DOMAIN new /\ SeasonsKept(old[id].seasons, new[id].seasons)

\* C13: after a run in which a provider fetch failed, every team row, detail
\* document and summary row stored before the run is still there with all its
\* fields, no season entry is gone and no filled block is empty; when every
\* fetch of the run failed the players' documents and rows have the values
\* they had before the run.
C13_PreserveOnFailure ==
    FetchFailed =>
        /\ RowsKept(lastRun.before.teams, teams)
        /\ RowsKept(lastRun.before.players, players)
        /\ NbaStatsKept(lastRun.before.nbaStats, nbaStats)
        /\ EplStatsKept(lastRun.before.eplStats, eplStats)
        /\ EveryFetchFailed =>
              /\ players = lastRun.before.players
              /\ nbaStats = lastRun.before.nbaStats
              /\ eplStats = lastRun.before.eplStats

\* The step is a call of the roster rebuild.
RebuildStep == calls' # calls /\ lastRun'.league = "nbaTeam"

\* C14 as claimed: in every step, the roster rebuild included, every summary
\* row stays in the collection and stays the same row (same _id).
C14_RowsNeverRecreated ==
    [][\A k \in DOMAIN players :
          k \in DOMAIN players' /\ players'[k]._id = players[k]._id]_vars

\* C14: in every step other than the roster rebuild every summary row stays
\* in the collection and stays the same row; the roster rebuild keeps the
\* rows of the other leagues, and every NBA row it leaves is a row it has
\* created.
C14_RowsKeptOutsideRebuild ==
    [][/\ \A k \in DOMAIN players :
             (~RebuildStep \/ players[k].league # "NBA") =>
                 k \in DOMAIN players' /\ players'[k]._id = players[k]._id
       /\ RebuildStep =>
             \A k \in DOMAIN players' :
                 players'[k].league = "NBA" => players'[k]._id > now]_vars

\* C14 witness: the roster rebuild has deleted the row of p2 and recreated
\* the row of p1, which an NBA run had created before.
C14_Witness ==
    /\ lastRun.league = "nbaTeam"
    /\ <<"nba", "p1">> \in DOMAIN lastRun.before.players
    /\ <<"nba", "p2">> \in DOMAIN lastRun.before.players
    /\ <<"nba", "p1">> \in DOMAIN players
    /\ <<"nba", "p2">> \notin DOMAIN players
    /\ players[<<"nba", "p1">>]._id # lastRun.before.players[<<"nba", "p1">>]._id
    /\ "nbaStatsRef" \notin DOMAIN players[<<"nba", "p1">>]

(***************************************************************************)
(* Failure isolation between the players of one fetch result.              *)
(***************************************************************************)
\* A group that processPlayerGroup and the save can handle: no record of a
\* group of several records lacks its team, and the player has a name.
Healthy(playerRecords) ==
    /\ Len(playerRecords) > 1 =>
          \A i \in 1..Len(playerRecords) : playerRecords[i].team # Null
    /\ playerRecords[1].playerName # Null

NbaRunProcessed(dataType) ==
    /\ lastRun.league = "nba"
    /\ lastRun.type \in {"regular", "playoff"}
    /\ lastRun.input[dataType].kind = "ok"
    /\ ~groupingThrows(lastRun.input[dataType].data)

\* The detail document of the player was saved by the last run.
MergedInRun(playerId) ==
    /\ playerId \in DOMAIN nbaStats
    /\ playerId \in DOMAIN lastRun.before.nbaStats =>
          nbaStats[playerId].lastUpdated >
              lastRun.before.nbaStats[playerId].lastUpdated
    /\ LET seasons == IF lastRun.type = "playoff"
                      THEN nbaStats[playerId].playoffs
                      ELSE nbaStats[playerId].regularSeasons
       IN  \E i \in 1..Len(seasons) : seasons[i].season = lastRun.season[1]

\* C15: when a category of an NBA run was fetched, every player of the
\* fetch result whose group can be processed is merged in that run, whether
\* or not the processing of another player of the result failed.
C15_PlayerIsolation ==
    \A dataType \in DataTypes :
        NbaRunProcessed(dataType) =>
            LET playerData == lastRun.input[dataType].data
                keys == groupKeys(playerData, <<>>)
            IN  \A k \in 1..Len(keys) :
                    Healthy(playerGroup(playerData, keys[k])) =>
                        MergedInRun(keys[k])

\* A run in which the groups before a player's group failed, in
\* processPlayerGroup and in save(), and the player was merged.
C15_Witness ==
    /\ NbaRunProcessed("totals")
    /\ LET playerData == lastRun.input.totals.data
           keys == groupKeys(playerData, <<>>)
       IN  \E j, k \in 1..Len(keys) :
              /\ j < k
              /\ ~Healthy(playerGroup(playerData, keys[j]))
              /\ keys[j] \notin DOMAIN nbaStats
              /\ Healthy(playerGroup(playerData, keys[k]))
              /\ MergedInRun(keys[k])

(***************************************************************************)
(* A response without the expected array against a transport error.        *)
(***************************************************************************)
\* The provider whose malformed answers are transport errors instead.
AsTransportErrors(prov) ==
    [p \in Pages |-> IF prov[p].kind = "invalid" THEN ErrorResponse ELSE prov[p]]

\* The success flag of the EPL run on empty collections when the players
\* endpoint answers as prov does.
EplFlag(prov) ==
    updateFromApiFootball(Collections, CURRENT_SEASON,
        [standings |-> StandingsOk(EplStandings), players |-> prov], 0).success

\* C16: a fetchAllPlayers call that met a response without the response
\* array ends as it would have ended had that answer been a transport
\* error: with the same outcome, the same records and the same success
\* flag of the league; on the first page the flag is false.
C16_MalformedAsTransportError ==
    fetch.outcome # "requesting" =>
        LET expected == fetchAllPlayers(AsTransportErrors(provider))
        IN  /\ fetch.outcome = expected.outcome
            /\ fetch.playersData = expected.playersData
            /\ EplFlag(provider) = EplFlag(AsTransportErrors(provider))
            /\ provider[1].kind = "invalid" => ~EplFlag(provider)

(***************************************************************************)
(* The entry updatePlayerStats creates for a season that is not stored.    *)
(***************************************************************************)
\* The last call merged a season the phase array did not hold.
MergedIntoNew == lastMerge.made /\ ~MergedIntoExisting

\* C17: when updatePlayerStats merges a category for a player, season and
\* phase without a stored entry, the saved document holds exactly one more
\* entry, the only one of that season, with the team, position and age of
\* the input, with the block of the merged category filled from the input
\* and with the block of the other category empty.
C17_NewSeasonEntry ==
    MergedIntoNew =>
        LET old == IF lastMerge.playerId \in DOMAIN before
                   THEN PhaseSeasons(before[lastMerge.playerId]) ELSE <<>>
            new == PhaseSeasons(nbaStats[lastMerge.playerId])
            statsRecord == lastMerge.statsRecord
            hits == {i \in 1..Len(new) : new[i].season = statsRecord.season}
        IN  /\ Len(new) = Len(old) + 1
            /\ Cardinality(hits) = 1
            /\ \A i \in hits :
                  /\ new[i].team = lastMerge.team
                  /\ new[i].position = statsRecord.position
                  /\ new[i].age = statsRecord.age
                  /\ IF lastMerge.dataType = "totals"
                     THEN /\ new[i].totals = totalsBlock(statsRecord)
                          /\ new[i].advanced = EmptyBlock
                     ELSE /\ new[i].advanced = advancedBlock(statsRecord)
                          /\ new[i].totals = EmptyBlock

(***************************************************************************)
(* Specification of the triggers of an update cycle: the UpdatePage of the *)
(* frontend, open in two browser pages, a client that posts to /update     *)
(* itself, and the command line script.  The server handles a request up   *)
(* to its next await and then turns to another; the script runs in a       *)
(* process of its own.  A cycle is followed through its league stages.     *)
(***************************************************************************)
UiPages == {"page1", "page2"}
Starters == UiPages \cup {"client", "script"}

\* The stages of updateSportsData in the order it runs them.
nextStage(stage) ==
    IF stage = "nba" THEN "nfl"
    ELSE IF stage = "nfl" THEN "epl"
    ELSE "respond"

InitTriggers ==
    /\ trigger = [updating |-> [page \in UiPages |-> FALSE],
                  stage |-> [starter \in Starters |-> "idle"]]
    /\ derive = NoDerivation /\ shared = NoShared /\ weave = NoWeave
    /\ EmptyStore /\ IdleMerge /\ IdleResolve /\ IdleFetch /\ IdleLeagues
    /\ now = 0

\* router.post('/update'): the handler calls updateSportsData(options).
postUpdate(state, starter) == [state EXCEPT !.stage[starter] = "nba"]

\* UpdatePage.handleUpdate: the button is disabled while this page's
\* updating flag is set; a click sets the flag and posts to /update.
HandleUpdate(page) ==
    /\ ~trigger.updating[page]
    /\ trigger' = postUpdate([trigger EXCEPT !.updating[page] = TRUE], page)
    /\ UNCHANGED <<varsResolve, varsStore, varsMerge, varsFetch, varsLeagues,
                   now, derive, shared, weave>>

\* A client posts to /update and waits for the response.
PostUpdate ==
    /\ trigger.stage["client"] = "idle"
    /\ trigger' = postUpdate(trigger, "client")
    /\ UNCHANGED <<varsResolve, varsStore, varsMerge, varsFetch, varsLeagues,
                   now, derive, shared, weave>>

\* node scripts/updateData.js: runUpdate calls updateSportsData.
RunScript ==
    /\ trigger.stage["script"] = "idle"
    /\ trigger' = [trigger EXCEPT !.stage["script"] = "nba"]
    /\ UNCHANGED <<varsResolve, varsStore, varsMerge, varsFetch, varsLeagues,
                   now, derive, shared, weave>>

\* updateSportsData goes from one league to the next.
CycleStage(starter) ==
    /\ trigger.stage[starter] \in {"nba", "nfl", "epl"}
    /\ trigger' = [trigger EXCEPT !.stage[starter] = nextStage(@)]
    /\ UNCHANGED <<varsResolve, varsStore, varsMerge, varsFetch, varsLeagues,
                   now, derive, shared, weave>>

\* res.json(...) and, on a page, the finally block of handleUpdate; the
\* script exits.
Respond(starter) ==
    /\ trigger.stage[starter] = "respond"
    /\ trigger' = [trigger EXCEPT
                     !.stage[starter] = "idle",
                     !.updating = [page \in UiPages |->
                                     IF page = starter THEN FALSE ELSE @[page]]]
    /\ UNCHANGED <<varsResolve, varsStore, varsMerge, varsFetch, varsLeagues,
                   now, derive, shared, weave>>

NextTriggers ==
    \/ \E page \in UiPages : HandleUpdate(page)
    \/ PostUpdate
    \/ RunScript
    \/ \E starter \in Starters : CycleStage(starter)
    \/ \E starter \in Starters : Respond(starter)

SpecTriggers == InitTriggers /\ [][NextTriggers]_vars

\* The cycles that are running.
RunningCycles ==
    {starter \in Starters : trigger.stage[starter] \in {"nba", "nfl", "epl"}}

\* C18: at most one update cycle runs at a time: a trigger that arrives
\* while a cycle is running starts no cycle that runs beside it.
C18_SingleRunningCycle == Cardinality(RunningCycles) <= 1

(***************************************************************************)
(* The order of the requests and the writes of a league's update.          *)
(***************************************************************************)
\* n times the event e.
Repeat(e, n) == [i \in 1..n |-> e]

\* fetchAndProcessTotals / fetchAndProcessAdvanced: the request, then one
\* updatePlayerStats call for every group processPlayerGroup resolves.
fetchAndProcessEvents(answer) ==
    <<"fetch">> \o
    (IF answer.kind = "ok"
     THEN LET keys == groupKeys(answer.data, <<>>)
              merged == SelectSeq(keys, LAMBDA playerId :
                           processPlayerGroup(
                               playerGroup(answer.data, playerId)).called)
          IN  Repeat("merge", Len(merged))
     ELSE <<>>)

\* updateNbaStats: totals are fetched and processed, then advanced are
\* fetched and processed, then the status write is issued.
nbaEvents(type, answers) ==
    IF type \in {"regular", "playoff"}
    THEN fetchAndProcessEvents(answers.totals)
            \o fetchAndProcessEvents(answers.advanced) \o <<"status">>
    ELSE <<>>

\* updateEPLData: the standings request, the team upserts, the requests of
\* fetchAllPlayers, the merge of every player who is not skipped, then the
\* status write.
eplEvents(input) ==
    <<"fetch">> \o
    (IF input.standings.kind # "ok" THEN <<>>
     ELSE LET fetched == fetchAllPlayers(input.players)
              kept == SelectSeq(fetched.playersData,
                                LAMBDA playerData : ~skipsPlayer(playerData))
          IN  Repeat("team", Len(input.standings.teams))
                 \o Repeat("fetch", Len(fetched.requested))
                 \o (IF fetched.outcome = "raised" THEN <<>>
                     ELSE Repeat("merge", Len(kept))))
    \o <<"status">>

\* Every request of the sequence comes before its first merge.
FetchesBeforeMerges(events) ==
    \A i, j \in 1..Len(events) :
        events[i] = "merge" /\ events[j] = "fetch" => j < i

\* C19: in a cycle every request to a league's provider is over before the
\* first merge of that league is written, and the status write of the NBA
\* update has reached the database when a later league has begun.
C19_Ordering ==
    /\ "nba" \in DOMAIN seen =>
          FetchesBeforeMerges(nbaEvents(seen.nba.type, seen.nba.answers))
    /\ "epl" \in DOMAIN seen => FetchesBeforeMerges(eplEvents(seen.epl))
    /\ \A i \in 1..Len(cycle.ran) :
          cycle.ran[i] = "nba" /\ i < Len(cycle.ran) => inflight = <<>>

(***************************************************************************)
(* Specification of a cycle whose process may terminate abnormally: the    *)
(* orchestrator with a termination between two of its stages, and one in   *)
(* the middle of the NBA totals loop, after some of the players were       *)
(* merged.  Each save() is one document write, which the database applies  *)
(* whole or not at all.                                                    *)
(***************************************************************************)
MaxMerged == 2      \* players merged before a termination inside the loop

Terminated(stage) == [finished |-> FALSE, rejected |-> FALSE, crashedAt |-> stage]

\* The process ends while updateSportsData waits between two stages; a
\* write that was issued and has not reached the database is lost.
Crash ==
    /\ pc \notin {"idle", "crashed"}
    /\ pc' = "crashed"
    /\ returned' = Terminated(pc)
    /\ inflight' = <<>>
    /\ UNCHANGED <<nbaStats, eplStats, players, teams, systemInfo, now, cycle,
                   results, seen, calls, lastRun>>
    /\ UNCHANGED <<varsResolve, varsMerge, varsFetch, varsAux>>

\* The process ends inside processBulkPlayerData of the totals, after the
\* first `merged` groups went through processPlayerGroup.
CrashInNba(answers, merged) ==
    /\ pc = "nba"
    /\ cycle.options.nbaType \in {"regular", "playoff"}
    /\ answers.totals.kind = "ok"
    /\ LET playerData == answers.totals.data
           keys == groupKeys(playerData, <<>>)
           after == processGroups([nbaStats |-> nbaStats, players |-> players],
                                  playerData, SubSeq(keys, 1, merged),
                                  cycle.options.nbaType = "playoff", "totals",
                                  now + 1)
       IN  /\ merged <= Len(keys)
           /\ nbaStats' = after.nbaStats
           /\ players' = after.players
    /\ pc' = "crashed"
    /\ returned' = Terminated("nba")
    /\ now' = now + 1
    /\ cycle' = [cycle EXCEPT !.nbaStartTime = now, !.ran = Append(@, "nba")]
    /\ seen' = ("nba" :> [type |-> cycle.options.nbaType, answers |-> answers])
                  @@ seen
    /\ UNCHANGED <<eplStats, teams, systemInfo, inflight, results, calls,
                   lastRun>>
    /\ UNCHANGED <<varsResolve, varsMerge, varsFetch, varsAux>>

NextCrash ==
    \/ Next
    \/ Crash
    \/ \E merged \in 0..MaxMerged :
          \E answers \in CycleNbaAnswers(cycle.options.nbaSeason[1]) :
              CrashInNba(answers, merged)

SpecCrash == Init /\ [][NextCrash]_vars

\* The ledger entries written since the cycle began.
CycleEntries ==
    {key \in DOMAIN systemInfo : systemInfo[key].timestamp >= cycle.startTime}

KeysOf(writes) == {writes[i].key : i \in 1..Len(writes)}

NbaLedgerKeys ==
    KeysOf(logSeasonUpdate(<<"NBA">>, TRUE, 0, cycle.options.nbaSeason, 0))
        \cup {nbaStatusWrite(NbaRegularSeason, TRUE, 0, 0).key,
              nbaStatusWrite(NbaPlayoffs, TRUE, 0, 0).key}

EplLedgerKeys ==
    KeysOf(logSeasonUpdate(<<"EPL">>, TRUE, 0, cycle.options.eplSeason, 0))
        \cup {eplStatusWrite(TRUE, 0, 0).key}

\* The records of the player that the NBA provider answers with, in this
\* cycle or in one before it.
FetchedRecords(playerId) ==
    UNION {{NbaRoster(season[1])[i] :
               i \in {j \in 1..Len(NbaRoster(season[1])) :
                          NbaRoster(season[1])[j].playerId = playerId}} :
              season \in NbaSeasonArgs}

\* The entry is what one updatePlayerStats call saves: its position and age
\* are those of one record, and each of its blocks is empty or holds the
\* fields of one record.
WholeEntry(playerId, entry) ==
    /\ \E r \in FetchedRecords(playerId) :
          /\ entry.season = r.season
          /\ entry.position = r.position
          /\ entry.age = r.age
    /\ \/ entry.totals = EmptyBlock
       \/ \E r \in FetchedRecords(playerId) : entry.totals = totalsBlock(r)
    /\ \/ entry.advanced = EmptyBlock
       \/ \E r \in FetchedRecords(playerId) : entry.advanced = advancedBlock(r)

WholeEntries ==
    \A playerId \in DOMAIN nbaStats :
        LET doc == nbaStats[playerId]
        IN  /\ \A i \in 1..Len(doc.regularSeasons) :
                  WholeEntry(playerId, doc.regularSeasons[i])
            /\ \A i \in 1..Len(doc.playoffs) :
                  WholeEntry(playerId, doc.playoffs[i])

MaxConfigCalls == 2     \* calls of the two entry points

ConfigCalls == 1..MaxConfigCalls

\* nbaStatsConfig as the module exports it.
DefaultConfig == [updateType |-> "regular", currentSeason |-> 2025]

NotCalled == [stage |-> "none"]

\* The options of updateSportsData: the leagues as a sequence in the order
\* they run, a type that may be invalid, a season that may be missing.
ConfigOptions ==
    {[leagues |-> leagues, nbaType |-> nbaType, nbaSeason |-> nbaSeason] :
        leagues \in {<<>>, <<"nba">>, <<"nba", "nfl", "epl">>},
        nbaType \in {"regular", "playoff", "preseason"},
        nbaSeason \in {<<2024>>, <<2025>>, Null}}

\* The arguments of updateNbaDataOnly(type, season); a missing season is
\* config.currentSeason.
NbaOnlyArgs ==
    {[nbaType |-> nbaType, nbaSeason |-> nbaSeason] :
        nbaType \in {"regular", "playoff", "preseason"},
        nbaSeason \in {<<2024>>, <<2025>>, Null}}

\* if (options.nbaType && ['regular', 'playoff'].includes(options.nbaType))
\* and if (options.nbaSeason)
overrideConfig(config, options) ==
    [updateType |->
        IF options.nbaType \in {"regular", "playoff"} THEN options.nbaType
        ELSE config.updateType,
     currentSeason |->
        IF options.nbaSeason # Null THEN options.nbaSeason[1]
        ELSE config.currentSeason]

\* config.updateType = type; config.currentSeason = season
overrideConfigOnly(config, args) ==
    [updateType |-> args.nbaType,
     currentSeason |->
        IF args.nbaSeason # Null THEN args.nbaSeason[1]
        ELSE config.currentSeason]

\* config.updateType = originalType; config.currentSeason = originalSeason
restoreConfig(config, call) ==
    [updateType |-> call.originalType, currentSeason |-> call.originalSeason]

InitConfig ==
    /\ shared = [config |-> DefaultConfig,
                 call |-> [c \in ConfigCalls |-> NotCalled]]
    /\ derive = NoDerivation /\ trigger = NoTrigger /\ weave = NoWeave
    /\ EmptyStore /\ IdleMerge /\ IdleResolve /\ IdleFetch /\ IdleLeagues
    /\ now = 0

\* The call has run its last league: the values are assigned back and
\* updateSportsData goes on to write lastUpdateTime.
afterLeagues(state, c) ==
    [state EXCEPT !.config = restoreConfig(@, state.call[c]),
                  !.call[c].stage = "write"]

\* updateSportsData(options) up to its first await.
BeginUpdate(c, options) ==
    /\ shared.call[c].stage = "none"
    /\ LET began ==
              [shared EXCEPT
                  !.config = overrideConfig(@, options),
                  !.call[c] = [stage |-> "leagues", entry |-> "updateSportsData",
                               before |-> shared.config,
                               originalType |-> shared.config.updateType,
                               originalSeason |-> shared.config.currentSeason,
                               left |-> options.leagues, results |-> <<>>,
                               atReturn |-> Null]]
       IN  shared' = IF options.leagues = <<>> THEN afterLeagues(began, c)
                     ELSE began
    /\ UNCHANGED <<varsResolve, varsStore, varsMerge, varsFetch, varsLeagues,
                   now, derive, trigger, weave>>

\* updateNbaDataOnly(type, season) up to its await of updateNbaStats().
BeginNbaOnly(c, args) ==
    /\ shared.call[c].stage = "none"
    /\ shared' =
          [shared EXCEPT
              !.config = overrideConfigOnly(@, args),
              !.call[c] = [stage |-> "leagues", entry |-> "updateNbaDataOnly",
                           before |-> shared.config,
                           originalType |-> shared.config.updateType,
                           originalSeason |-> shared.config.currentSeason,
                           left |-> <<"nba">>, results |-> <<>>,
                           atReturn |-> Null]]
    /\ UNCHANGED <<varsResolve, varsStore, varsMerge, varsFetch, varsLeagues,
                   now, derive, trigger, weave>>

\* The update of the next league returns its flag; none of the league
\* updates lets an exception out.  After the last league the values are
\* assigned back, and updateNbaDataOnly returns in the same turn.
LeagueReturns(c, success) ==
    /\ shared.call[c].stage = "leagues"
    /\ LET call == shared.call[c]
           ran == [shared EXCEPT
                      !.call[c].left = Tail(@),
                      !.call[c].results = Append(@, <<Head(call.left), success>>)]
       IN  shared' =
              IF Len(call.left) > 1 THEN ran
              ELSE IF call.entry = "updateSportsData" THEN afterLeagues(ran, c)
              ELSE LET restored == restoreConfig(ran.config, call)
                   IN  [ran EXCEPT !.config = restored,
                                   !.call[c].stage = "returned",
                                   !.call[c].atReturn = restored]
    /\ UNCHANGED <<varsResolve, varsStore, varsMerge, varsFetch, varsLeagues,
                   now, derive, trigger, weave>>

\* The lastUpdateTime write is over and updateSportsData returns.
UpdateReturns(c) ==
    /\ shared.call[c].stage = "write"
    /\ shared' = [shared EXCEPT !.call[c].stage = "returned",
                                !.call[c].atReturn = shared.config]
    /\ UNCHANGED <<varsResolve, varsStore, varsMerge, varsFetch, varsLeagues,
                   now, derive, trigger, weave>>

NextConfig ==
    \/ \E c \in ConfigCalls, options \in ConfigOptions : BeginUpdate(c, options)
    \/ \E c \in ConfigCalls, args \in NbaOnlyArgs : BeginNbaOnly(c, args)
    \/ \E c \in ConfigCalls, success \in BOOLEAN : LeagueReturns(c, success)
    \/ \E c \in ConfigCalls : UpdateReturns(c)

SpecConfig == InitConfig /\ [][NextConfig]_vars

\* C21: when a call of updateSportsData or updateNbaDataOnly has finished,
\* config.updateType and config.currentSeason are what they were before the
\* call, whatever its league updates returned.
C21_ConfigRestored ==
    \A c \in ConfigCalls :
        shared.call[c].stage = "returned" =>
            shared.call[c].atReturn = shared.call[c].before

(***************************************************************************)
(* Specification of two updatePlayerStats calls for different players      *)
(* whose steps interleave: each call finds its document, saves the merged  *)
(* document and, for regular-season totals, links the summary row.  The    *)
(* database applies each of these operations on its own.                   *)
(***************************************************************************)
WeavePlayers == {"p1", "p2"}

\* The time each call reads from the clock.
weaveTime(playerId) == IF playerId = "p1" THEN 1 ELSE 2

\* The collections before the two calls: empty, or with the documents and
\* rows an earlier cycle stored for both players.
StoredBefore ==
    LET first == updatePlayerStats(<<>>, <<>>, "p1", <<"name", "p1">>, ATL,
                     NbaRecord(1, "p1", ATL, 2025, "G", 1, 10), FALSE,
                     "totals", 0)
    IN  updatePlayerStats(first.nbaStats, first.players, "p2",
            <<"name", "p2">>, BOS, NbaRecord(2, "p2", BOS, 2025, "F", 2, 30),
            FALSE, "totals", 0)

WeaveStores == {[nbaStats |-> <<>>, players |-> <<>>], StoredBefore}

WeaveCalls ==
    {[pc |-> "find", statsRecord |-> statsRecord, isPlayoffs |-> isPlayoffs,
      dataType |-> dataType, loaded |-> Null] :
        statsRecord \in MergeRecords, isPlayoffs \in BOOLEAN,
        dataType \in DataTypes}

InitWeave ==
    /\ weave \in {[stage |-> "run", start |-> start, call |-> call,
                    trace |-> <<>>] :
                     start \in WeaveStores,
                     call \in {c \in [WeavePlayers -> WeaveCalls] :
                                 \A playerId \in WeavePlayers :
                                    /\ c[playerId].statsRecord.playerId = playerId
                                    /\ c[playerId].statsRecord.season = 2025}}
    /\ nbaStats = weave.start.nbaStats
    /\ players = weave.start.players
    /\ derive = NoDerivation /\ trigger = NoTrigger /\ shared = NoShared
    /\ IdleMerge /\ IdleResolve /\ IdleFetch /\ IdleLeagues
    /\ now = 0

\* NbaPlayerStats.findOne({ playerId })
WeaveFind(playerId) ==
    /\ weave.stage = "run"
    /\ weave.call[playerId].pc = "find"
    /\ weave' = [weave EXCEPT
                    !.call[playerId].pc = "save",
                    !.call[playerId].loaded =
                        <<NbaPlayerStats_findOne(nbaStats, playerId)>>,
                    !.trace = Append(@, <<playerId, "find">>)]
    /\ UNCHANGED <<varsResolve, varsStore, varsMerge, varsFetch, varsLeagues,
                   now, derive, trigger, shared>>

\* Mutant of foundStore: the call merges into a new document whatever it
\* found.
foundStore_none(call, playerId) == <<>>

\* The document the call found, or none, as a collection of its own.
foundStore(call, playerId) ==
    IF call.loaded[1] = Null THEN <<>> ELSE (playerId :> call.loaded[1])

\* The merge into the document that was found, and playerStats.save().
WeaveSave(playerId) ==
    /\ weave.stage = "run"
    /\ weave.call[playerId].pc = "save"
    /\ LET call == weave.call[playerId]
           doc == mergedDocument(foundStore(call, playerId), playerId,
                                 call.statsRecord.playerName,
                                 call.statsRecord.team, call.statsRecord,
                                 call.isPlayoffs, call.dataType,
                                 weaveTime(playerId))
           links == call.dataType = "totals" /\ ~call.isPlayoffs
       IN  /\ nbaStats' = IF saveThrows(doc) THEN nbaStats
                          ELSE NbaPlayerStats_save(nbaStats, doc)
           /\ weave' = [weave EXCEPT
                           !.call[playerId].pc =
                               IF links /\ ~saveThrows(doc) THEN "link"
                               ELSE "done",
                           !.trace = Append(@, <<playerId, "save">>)]
    /\ UNCHANGED <<players, varsResolve, varsMerge, varsFetch, varsLeagues,
                   now, derive, trigger, shared>>

\* updatePlayerReference: Player.findOneAndUpdate with upsert.
WeaveLink(playerId) ==
    /\ weave.stage = "run"
    /\ weave.call[playerId].pc = "link"
    /\ LET call == weave.call[playerId]
       IN  players' = updatePlayerReference(players, playerId,
                          call.statsRecord.playerName, call.statsRecord.team,
                          call.statsRecord, weaveTime(playerId))
    /\ weave' = [weave EXCEPT !.call[playerId].pc = "done",
                              !.trace = Append(@, <<playerId, "link">>)]
    /\ UNCHANGED <<nbaStats, varsResolve, varsMerge, varsFetch, varsLeagues,
                   now, derive, trigger, shared>>

NextWeave ==
    \/ \E playerId \in WeavePlayers : WeaveFind(playerId)
    \/ \E playerId \in WeavePlayers : WeaveSave(playerId)
    \/ \E playerId \in WeavePlayers : WeaveLink(playerId)

SpecWeave == InitWeave /\ [][NextWeave]_vars

\* The collections after the call for `first` and then the call for
\* `second`, each run from its start to its end.
OneAfterTheOther(first, second) ==
    LET a == weave.call[first]
        b == weave.call[second]
        one == updatePlayerStats(weave.start.nbaStats, weave.start.players,
                   first, a.statsRecord.playerName, a.statsRecord.team,
                   a.statsRecord, a.isPlayoffs, a.dataType, weaveTime(first))
    IN  updatePlayerStats(one.nbaStats, one.players, second,
            b.statsRecord.playerName, b.statsRecord.team, b.statsRecord,
            b.isPlayoffs, b.dataType, weaveTime(second))

WeaveDone ==
    weave.stage = "run" /\ \A playerId \in WeavePlayers :
                              weave.call[playerId].pc = "done"

\* C22: when two merges for different players have ended, in whatever
\* order their steps ran, the detail documents and the summary rows are
\* those that the two merges leave when one runs after the other, in
\* either order.
C22_MergesDoNotInterfere ==
    WeaveDone =>
        /\ [nbaStats |-> nbaStats, players |-> players]
              = OneAfterTheOther("p1", "p2")
        /\ [nbaStats |-> nbaStats, players |-> players]
              = OneAfterTheOther("p2", "p1")

\* C22 witness: the steps of the two merges alternated, both merges wrote
\* a document that was stored before and linked a summary row.
C22_Witness ==
    /\ WeaveDone
    /\ weave.start.nbaStats # <<>>
    /\ Len(weave.trace) = 6
    /\ \A i \in 1..5 : weave.trace[i][1] # weave.trace[i + 1][1]
    /\ nbaStats # weave.start.nbaStats
    /\ players # weave.start.players

(***************************************************************************)
(* Specification of the paginated fetcher with a provider that reports     *)
(* any current page and any total in its paging block.  fetchAllPlayers    *)
(* takes the next page and the end of the pages from the paging block of   *)
(* each response.                                                          *)
(***************************************************************************)
ReportedPages == Pages

LooseAnswers(p) ==
    {ErrorResponse, InvalidResponse}
        \cup {OkResponse(c, current, total) :
                 c \in PageContents(p), current \in ReportedPages,
                 total \in Pages}

LooseProviders ==
    {prov \in [Pages -> UNION {LooseAnswers(p) : p \in Pages}] :
        \A p \in Pages : prov[p] \in LooseAnswers(p)}

InitPaging ==
    /\ provider \in LooseProviders
    /\ fetch = FetchStart
    /\ EmptyStore /\ IdleMerge /\ IdleResolve /\ IdleLeagues
    /\ now = 0 /\ IdleAux

SpecPaging == InitPaging /\ [][NextFetch]_vars

\* The answer to the i-th request.
AnswerTo(i) == provider[fetch.requested[i]]

\* C23: fetchAllPlayers requests page 1 first and then the pages in
\* consecutive increasing order, none of them twice; it has waited a delay
\* before every request after the first; and it makes no request after a
\* response that reports a current page not less than the total.
C23_PageRequestOrder ==
    LET requested == fetch.requested
    IN  /\ Len(requested) > 0 => requested[1] = 1
        /\ \A i \in 1..(Len(requested) - 1) :
              requested[i + 1] = requested[i] + 1
        /\ \A i, j \in 1..Len(requested) :
              i # j => requested[i] # requested[j]
        /\ Len(requested) > 0 => Len(fetch.delays) >= Len(requested) - 1
        /\ \A i \in 1..(Len(requested) - 1) :
              /\ AnswerTo(i).kind = "ok"
              /\ AnswerTo(i).current < AnswerTo(i).total

(***************************************************************************)
(* The same fetcher followed without a limit on its requests.  What a      *)
(* call does next depends on its page and on whether playersData is        *)
(* empty; the state keeps that much of it and drops the history.           *)
(***************************************************************************)
withoutHistory(st) ==
    [st EXCEPT !.requested = <<>>, !.delays = <<>>,
               !.playersData = IF @ = <<>> THEN <<>> ELSE <<@[1]>>]

\* Every call makes a request and time passes with it; the clock is kept
\* modulo 2, so that a call that leads to a call with the same page is a
\* step and not a standstill.
FetchOn ==
    /\ fetch.outcome = "requesting"
    /\ fetch' = withoutHistory(fetchStep(provider, fetch))
    /\ now' = (now + 1) % 2
    /\ UNCHANGED <<provider, varsResolve, varsStore, varsMerge, varsLeagues,
                   varsAux>>

\* The event loop runs the call whenever its request has been answered.
FairSpecPaging == InitPaging /\ [][FetchOn]_vars /\ WF_vars(FetchOn)

\* C24: for a provider that reports a finite total in every response,
\* fetchAllPlayers makes finitely many requests and then returns or
\* raises: every call comes to an end.
C24_FetcherTerminates == <>(fetch.outcome # "requesting")


(***************************************************************************)
(* The meaning of the success flag of updateNbaStats (SpecLeagues).        *)
(***************************************************************************)
\* The request of the category was answered with an array.
ReturnedArray(dataType) == lastRun.input[dataType].kind = "ok"

\* The array of the category went through the grouping loop.
Grouped(dataType) ==
    /\ ReturnedArray(dataType)
    /\ ~groupingThrows(lastRun.input[dataType].data)

\* The advanced figures of every player of the advanced response whose
\* group can be processed were merged by the last run.
AdvancedMerged ==
    LET playerData == lastRun.input.advanced.data
        keys == groupKeys(playerData, <<>>)
    IN  \A k \in 1..Len(keys) :
            Healthy(playerGroup(playerData, keys[k])) => MergedInRun(keys[k])

\* C25 as stated: the flag of an NBA run is true exactly when the type is
\* regular or playoff and both requests were answered with an array; the
\* advanced response is processed although the totals request failed.
C25_FlagIffBothArrays ==
    lastRun.league = "nba" =>
        /\ lastRun.result = (/\ lastRun.type \in {"regular", "playoff"}
                             /\ ReturnedArray("totals")
                             /\ ReturnedArray("advanced"))
        /\ (/\ lastRun.type \in {"regular", "playoff"}
            /\ ~ReturnedArray("totals")
            /\ Grouped("advanced")) => AdvancedMerged

\* C25 amended: the flag of an NBA run is true exactly when the type is
\* regular or playoff and both requests were answered with an array whose
\* elements could all be grouped; the advanced response is processed
\* although the totals fetch failed, and players whose merge failed leave
\* the flag true.
C25_FlagIffBothProcessed ==
    lastRun.league = "nba" =>
        /\ lastRun.result = (/\ lastRun.type \in {"regular", "playoff"}
                             /\ Grouped("totals")
                             /\ Grouped("advanced"))
        /\ (/\ lastRun.type \in {"regular", "playoff"}
            /\ ~Grouped("totals")
            /\ Grouped("advanced")) => AdvancedMerged

\* A run that returned true although groups of both responses were not
\* merged.
C25_Witness ==
    /\ lastRun.league = "nba"
    /\ lastRun.result = TRUE
    /\ Grouped("totals")
    /\ LET playerData == lastRun.input.totals.data
           keys == groupKeys(playerData, <<>>)
       IN  \E k \in 1..Len(keys) :
              /\ ~Healthy(playerGroup(playerData, keys[k]))
              /\ keys[k] \notin DOMAIN nbaStats

(***************************************************************************)
(* The season in the key of the league+season ledger entry (Spec).         *)
(***************************************************************************)
\* The ledger keys a step wrote.
WrittenKeys ==
    {k \in DOMAIN systemInfo' :
        k \notin DOMAIN systemInfo \/ systemInfo'[k] # systemInfo[k]}

\* The league+season keys logSeasonUpdate can build for a league.
SeasonKeys(operation) ==
    {"lastUpdate_" \o operation \o "_" \o seasonText(season) :
        season \in NbaSeasonArgs \cup EplSeasonArgs}

\* C26: every league+season ledger key a step of the cycle writes names
\* the season the cycle requested from the provider of that league.
C26_LedgerKeyNamesSeason ==
    [][\A k \in WrittenKeys :
          /\ k \in SeasonKeys("NBA") =>
                k = "lastUpdate_NBA_" \o ToString(cycle.options.nbaSeason[1])
          /\ k \in SeasonKeys("EPL") =>
                k = "lastUpdate_EPL_"
                       \o ToString(seasonOrDefault(cycle.options.eplSeason))]_vars

(***************************************************************************)
(* The summary row of an EPL player against the season entry of the same   *)
(* run (SpecLeagues).                                                      *)
(***************************************************************************)
\* The players the last EPL run processed: fetched and not skipped.
EplProcessed ==
    LET playersData == fetchAllPlayers(lastRun.input.players).playersData
    IN  {playersData[i] : i \in {j \in 1..Len(playersData) :
                                    /\ ~skipsPlayer(playersData[j])
                                    /\ ~eplSaveThrows(playersData[j])}}

\* C27: after an EPL run processed a player, gamesPlayed and gamesStarted
\* of the summary row equal appearances and lineups of the season entry the
\* run wrote to the player's detail document.
C27_SummaryAgreesWithDetail ==
    (lastRun.league = "epl" /\ lastRun.result = TRUE) =>
        \A playerData \in EplProcessed :
            LET row == players[<<"epl", playerData.id>>]
                seasons == eplStats[playerData.id].seasons
                entry == seasons[eplFindSeason(seasons,
                                    seasonOrDefault(lastRun.season))]
            IN  /\ row.stats.gamesPlayed = entry.appearances
                /\ row.stats.gamesStarted = entry.lineups

(***************************************************************************)
(* The references of the summary rows to the detail documents              *)
(* (SpecLeagues).                                                          *)
(***************************************************************************)
\* Every reference of a summary row names a stored detail document.
ReferencesResolve(rows, nbaStore, eplStore) ==
    \A k \in DOMAIN rows :
        /\ "nbaStatsRef" \in DOMAIN rows[k] =>
              rows[k].nbaStatsRef \in DOMAIN nbaStore
        /\ "eplStatsRef" \in DOMAIN rows[k] =>
              rows[k].eplStatsRef \in DOMAIN eplStore

\* C28: after every step of the league runs each nbaStatsRef and
\* eplStatsRef of a summary row names a detail document in the store, and
\* no step removes a detail document.
C28_ReferenceIntegrity ==
    [][/\ ReferencesResolve(players', nbaStats', eplStats')
       /\ DOMAIN nbaStats \subseteq DOMAIN nbaStats'
       /\ DOMAIN eplStats \subseteq DOMAIN eplStats']_vars

\* References of both leagues are stored, and the EPL player whose save
\* failed has neither a document nor a row.
C28_Witness ==
    /\ \E k \in DOMAIN players : "nbaStatsRef" \in DOMAIN players[k]
    /\ \E k \in DOMAIN players : "eplStatsRef" \in DOMAIN players[k]
    /\ lastRun.league = "epl"
    /\ lastRun.input.players = FaultyPage
    /\ "e3" \notin DOMAIN eplStats
    /\ <<"epl", "e3">> \notin DOMAIN players

(***************************************************************************)
(* The team processPlayerGroup passes on (SpecResolve).                    *)
(***************************************************************************)
\* C29: when processPlayerGroup calls updatePlayerStats, the team it passes
\* is the team of a record of the group that is not an aggregate record;
\* it is neither null nor a label that contains 'TM'.
C29_ResolvedTeamIsReal ==
    resolved.called =>
        \E i \in 1..Len(group) :
            /\ group[i].team # Null
            /\ ~includesTM(group[i].team)
            /\ resolved.team = group[i].team

(***************************************************************************)
(* Specification of a cycle whose SystemInfo writes can fail: every        *)
(* findOneAndUpdate of the ledger either lands or rejects.                 *)
(***************************************************************************)
\* The number of writes of logSeasonUpdate that land before one rejects:
\* the catch block ends the function at the first rejection.
LandedBeforeFailure == {0, 1}

\* logSeasonUpdate('NBA', ...) in which a write rejects; the rejection is
\* caught and logSeasonUpdate returns.
LogNbaFails(landed) ==
    /\ pc = "nbaLog"
    /\ systemInfo' =
          SystemInfo_upsertAll(systemInfo,
              SubSeq(logSeasonUpdate(<<"NBA">>, results.nba, cycle.nbaStartTime,
                                     cycle.options.nbaSeason, now), 1, landed))
    /\ now' = now + 1
    /\ pc' = stageAfter(cycle.options, "nba")
    /\ UNCHANGED <<nbaStats, eplStats, players, teams, inflight, cycle,
                   results, seen, returned, calls, lastRun>>
    /\ UNCHANGED <<varsResolve, varsMerge, varsFetch, varsAux>>

\* logSeasonUpdate('EPL', ...) in which a write rejects.
LogEplFails(landed) ==
    /\ pc = "eplLog"
    /\ systemInfo' =
          SystemInfo_upsertAll(systemInfo,
              SubSeq(logSeasonUpdate(<<"EPL">>, results.epl, cycle.eplStartTime,
                                     cycle.options.eplSeason, now), 1, landed))
    /\ now' = now + 1
    /\ pc' = stageAfter(cycle.options, "epl")
    /\ UNCHANGED <<nbaStats, eplStats, players, teams, inflight, cycle,
                   results, seen, returned, calls, lastRun>>
    /\ UNCHANGED <<varsResolve, varsMerge, varsFetch, varsAux>>

\* updateEPLData in which the write of logUpdateStatus rejects: the catch
\* block of logUpdateStatus logs the error and the flag is returned.
RunEplStatusFails(input) ==
    /\ pc = "epl"
    /\ LET run == updateEPLData(Collections, cycle.options.eplSeason, input,
                                now)
       IN  /\ teams' = run.teams
           /\ eplStats' = run.eplStats
           /\ players' = run.players
           /\ now' = run.endTime + 1
           /\ results' = ("epl" :> run.success) @@ results
    /\ pc' = "eplLog"
    /\ cycle' = [cycle EXCEPT !.eplStartTime = now, !.ran = Append(@, "epl")]
    /\ seen' = ("epl" :> input) @@ seen
    /\ UNCHANGED <<nbaStats, systemInfo, inflight, returned, calls, lastRun>>
    /\ UNCHANGED <<varsResolve, varsMerge, varsFetch, varsAux>>

\* The write updateNbaStats issued without await rejects; its .catch logs
\* the error.
StatusWriteFails ==
    /\ \E i \in 1..Len(inflight) :
          inflight' = [j \in 1..(Len(inflight) - 1) |->
                          IF j < i THEN inflight[j] ELSE inflight[j + 1]]
    /\ UNCHANGED <<nbaStats, eplStats, players, teams, systemInfo, now,
                   varsCycle, calls, lastRun>>
    /\ UNCHANGED <<varsResolve, varsMerge, varsFetch, varsAux>>

\* The lastUpdateTime write of updateSportsData rejects: the await is in no
\* try block, so the call rejects and nothing is returned.
FinishCycleFails ==
    /\ pc = "finish"
    /\ returned' = Rejected
    /\ now' = now + 1
    /\ pc' = "idle"
    /\ UNCHANGED <<nbaStats, eplStats, players, teams, systemInfo, inflight,
                   cycle, results, seen, calls, lastRun>>
    /\ UNCHANGED <<varsResolve, varsMerge, varsFetch, varsAux>>

NextLedgerFaults ==
    \/ Next
    \/ \E landed \in LandedBeforeFailure : LogNbaFails(landed)
    \/ \E landed \in LandedBeforeFailure : LogEplFails(landed)
    \/ \E input \in CycleEplInputs : RunEplStatusFails(input)
    \/ StatusWriteFails
    \/ FinishCycleFails

SpecLedgerFaults == Init /\ [][NextLedgerFaults]_vars

\* C30: when a call of updateSportsData has ended, it returned, and what it
\* returned holds the success flag of every league that ran, whichever
\* SystemInfo writes of the cycle failed.
C30_LedgerFailuresKeepResults ==
    (pc = "idle" /\ calls > 0) =>
        /\ returned.finished
        /\ \A k \in 1..Len(cycle.ran) :
              /\ cycle.ran[k] \in DOMAIN returned.results
              /\ returned.results[cycle.ran[k]] = results[cycle.ran[k]]

====
